---------------------------- MODULE Spec2Model ----------------------------
(***************************************************************************)
(* A model of the terminal session controller of tui-rs (src/tui-rs/src):  *)
(* the event loop of App::run, the key handlers of the seven screens, the  *)
(* modal workflow, the selection/cascade engine of AppState and the        *)
(* refresh sequence of App::refresh_all with its remote calls.             *)
(*                                                                         *)
(* The App struct is the record Self (one variable per field).  An async   *)
(* fn of the code is an "op": it runs up to its remote call, is suspended  *)
(* while the call is in flight (a frame of inflight) and is resumed with   *)
(* the call's response.  Rust's Option is a sequence of length 0 or 1, a   *)
(* String built with format! is the tuple of its parts, a text field is    *)
(* the sequence of its characters, and list indices are 0-based as in the  *)
(* code.                                                                   *)
(***************************************************************************)
EXTENDS Integers, Sequences, FiniteSets, TLC

VARIABLES
    state,          \* App.state : AppState
    client,         \* App.client : the gateway binding (base url, tokens)
    modal,          \* App.modal : Option<Modal>
    screen,         \* App.screen
    auto_login,     \* App.auto_login
    login_form,     \* App.login_form
    menu_index,     \* App.menu_index
    welcome_index,  \* App.welcome_index
    inflight,       \* the suspended handlers: each awaits one remote call
    missed,         \* timer deadlines that have passed and that tick() has not yet returned
    running,        \* where App::run is: "running" in its loop, "exited" after its cleanup,
                    \* "failed" once a `?` has returned an error out of it
    raw_mode,       \* the terminal is in raw mode on the alternate screen
    server,         \* the remote service's data (the size of its lists)
    nkeys,          \* key events taken so far
    nfail           \* failed remote calls so far

vars == <<state, client, modal, screen, auto_login, login_form, menu_index,
          welcome_index, inflight, missed, running, raw_mode, server, nkeys, nfail>>

-----------------------------------------------------------------------------
(* Bounds of the model *)

\* the remote service holds at most MaxSize projects (and as many items in its other lists)
MaxSize == 2
\* key events per run
MaxKeys == 4
\* failed remote calls per run
MaxFail == 1
\* timer deadlines that may pass unserved
MaxMissed == 2
\* characters typed into one text field
MaxText == 1
\* items of a list whose cursor is moved
MaxLen == 3

-----------------------------------------------------------------------------
(* Option, strings *)

None == <<>>

Some(x) == <<x>>

IsSome(o) == o # <<>>

Unwrap(o) == o[1]

\* Vec::get with a 0-based index
Get(list, idx) == IF idx >= 0 /\ idx < Len(list) THEN Some(list[idx + 1]) ELSE None

Min(a, b) == IF a <= b THEN a ELSE b

Max(a, b) == IF a >= b THEN a ELSE b

\* a string literal of the code
Str(s) == <<s>>

Whitespace == {" "}

RECURSIVE TrimStart(_)
TrimStart(s) == IF s # <<>> /\ Head(s) \in Whitespace THEN TrimStart(Tail(s)) ELSE s

RECURSIVE TrimEnd(_)
TrimEnd(s) ==
    IF s # <<>> /\ s[Len(s)] \in Whitespace THEN TrimEnd(SubSeq(s, 1, Len(s) - 1)) ELSE s

\* str::trim
Trim(s) == TrimEnd(TrimStart(s))

\* String::pop
Pop(s) == IF s = <<>> THEN s ELSE SubSeq(s, 1, Len(s) - 1)

-----------------------------------------------------------------------------
(* state.rs *)

Pages == <<"Dashboard", "Projects", "Protocols", "Steps", "Events", "Queues", "Settings">>

\* a next that stopped on the last page
page_next_stopping(p) ==
    IF p = "Settings" THEN "Settings"
    ELSE Pages[(CHOOSE i \in 1..Len(Pages) : Pages[i] = p) + 1]

page_next(p) ==
    CASE p = "Dashboard" -> "Projects"
      [] p = "Projects" -> "Protocols"
      [] p = "Protocols" -> "Steps"
      [] p = "Steps" -> "Events"
      [] p = "Events" -> "Queues"
      [] p = "Queues" -> "Settings"
      [] p = "Settings" -> "Dashboard"

page_prev(p) ==
    CASE p = "Dashboard" -> "Settings"
      [] p = "Projects" -> "Dashboard"
      [] p = "Protocols" -> "Projects"
      [] p = "Steps" -> "Protocols"
      [] p = "Events" -> "Steps"
      [] p = "Queues" -> "Events"
      [] p = "Settings" -> "Queues"

\* i32::clamp
Clamp(x, lo, hi) == IF x < lo THEN lo ELSE IF x > hi THEN hi ELSE x

\* a move_index that went round the ends of the list
move_index_wrapping(current, len, delta) ==
    IF len = 0 THEN None
    ELSE Some(((IF IsSome(current) THEN Unwrap(current) ELSE 0) + delta + len) % len)

move_index(current, len, delta) ==
    IF len = 0 THEN None
    ELSE Some(Clamp((IF IsSome(current) THEN Unwrap(current) ELSE 0) + delta, 0, len - 1))

select_project(st, delta) ==
    [st EXCEPT !.project_index = move_index(st.project_index, Len(st.projects), delta)]

select_protocol(st, delta) ==
    [st EXCEPT !.protocol_index = move_index(st.protocol_index, Len(st.protocols), delta)]

select_step(st, delta) ==
    [st EXCEPT !.step_index = move_index(st.step_index, Len(st.steps), delta)]

select_branch(st, delta) ==
    [st EXCEPT !.branch_index = move_index(st.branch_index, Len(st.branches), delta)]

select_event(st, delta) ==
    [st EXCEPT !.event_index = move_index(st.event_index, Len(st.events), delta)]

\* Option<index> -> Option<id> of the item at that index
SelectedId(index, list) ==
    IF IsSome(index) /\ IsSome(Get(list, Unwrap(index)))
    THEN Some(Unwrap(Get(list, Unwrap(index))).id)
    ELSE None

selected_project_id(st) == SelectedId(st.project_index, st.projects)

selected_protocol_id(st) == SelectedId(st.protocol_index, st.protocols)

selected_step_id(st) == SelectedId(st.step_index, st.steps)

\* AppState::default() with the status App::new gives it
InitState ==
    [ page |-> "Dashboard",
      projects |-> <<>>, project_index |-> None,
      protocols |-> <<>>, protocol_index |-> None,
      steps |-> <<>>, step_index |-> None, step_filter |-> None,
      events |-> <<>>, event_index |-> None,
      recent_events |-> <<>>, recent_event_index |-> None,
      queue_stats |-> None, queue_jobs |-> <<>>,
      branches |-> <<>>, branch_index |-> None,
      job_status_filter |-> None,
      status |-> Str("Ready"), last_error |-> None, refreshing |-> FALSE ]


-----------------------------------------------------------------------------
(* The remote service (api.rs): what each endpoint answers when it succeeds. *)
(* The service holds n projects 1..n; project p has n-p+1 protocols 10p+j and *)
(* n-p+1 branches; protocol 10p+j has n-j+1 steps and j-1 events; step i has  *)
(* the status StepStatusOf(i).                                               *)

StepStatusOf(i) == IF i = 1 THEN "pending" ELSE IF i = 2 THEN "failed" ELSE "completed"

JobStatusOf(i) == IF i = 1 THEN "queued" ELSE IF i = 2 THEN "failed" ELSE "finished"

BranchNames == <<"main", "dev", "feature", "hotfix">>

ServerProjects(n) == [i \in 1..n |-> [id |-> i]]

ServerProtocols(n, p) ==
    IF p \in 1..n THEN [j \in 1..(n - p + 1) |-> [id |-> 10 * p + j, project_id |-> p]]
    ELSE <<>>

ProtocolExists(n, q) == \E j \in 1..Len(ServerProtocols(n, q \div 10)) : 10 * (q \div 10) + j = q

ServerSteps(n, q) ==
    IF ProtocolExists(n, q)
    THEN [i \in 1..(n - (q % 10) + 1) |->
            [id |-> 10 * q + i, protocol_run_id |-> q, status |-> StepStatusOf(i)]]
    ELSE <<>>

ServerEvents(n, q) ==
    IF ProtocolExists(n, q)
    THEN [i \in 1..((q % 10) - 1) |-> [id |-> 10 * q + i, protocol_run_id |-> q]]
    ELSE <<>>

ServerRecentEvents(n, limit) == [i \in 1..Min(n, limit) |-> [id |-> 110 + i, protocol_run_id |-> 11]]

ServerQueueStats(n) == Some(n)

RECURSIVE FilterSeq(_, _)
\* the items of a list whose status is in the set keep (iter().filter().collect())
FilterSeq(list, keep) ==
    IF list = <<>> THEN <<>>
    ELSE IF Head(list).status \in keep
         THEN <<Head(list)>> \o FilterSeq(Tail(list), keep)
         ELSE FilterSeq(Tail(list), keep)

ServerQueueJobs(n, filter) ==
    LET all == [i \in 1..n |-> [job_id |-> i, status |-> JobStatusOf(i)]]
    IN  IF IsSome(filter) THEN FilterSeq(all, {Unwrap(filter)}) ELSE all

ServerBranches(n, p) ==
    IF p \in 1..n THEN SubSeq(BranchNames, 1, Min(n - p + 1, Len(BranchNames))) ELSE <<>>

\* ApiError and its Display (#[error(...)])
HttpError(status, message) == [kind |-> "Http", status |-> status, message |-> message]

to_string(err) ==
    CASE err.kind = "Http" -> <<"http error ", err.status, ": ", err.message>>
      [] err.kind = "Transport" -> <<"transport error: ", err.message>>
      [] err.kind = "Unexpected" -> <<"unexpected response shape">>

\* a remote call: the endpoint, its arguments and the binding it is sent with
Call(name, arg, cl) == [name |-> name, arg |-> arg, client |-> cl]

\* the data of a successful response to call c when the service holds n projects
ServerData(n, c) ==
    CASE c.name = "projects" -> ServerProjects(n)
      [] c.name = "protocols" -> ServerProtocols(n, c.arg[1])
      [] c.name = "steps" -> ServerSteps(n, c.arg[1])
      [] c.name = "events" -> ServerEvents(n, c.arg[1])
      [] c.name = "recent_events" -> ServerRecentEvents(n, c.arg[1])
      [] c.name = "queue_stats" -> ServerQueueStats(n)
      [] c.name = "queue_jobs" -> ServerQueueJobs(n, c.arg[1])
      [] c.name = "branches" -> ServerBranches(n, c.arg[1])
      [] c.name = "create_project" -> [id |-> n + 1]
      [] c.name = "create_protocol" -> [id |-> 10 * c.arg[1] + (n - c.arg[1] + 2), project_id |-> c.arg[1]]
      [] OTHER -> None

Ok(data) == [ok |-> TRUE, data |-> data]

Err(e) == [ok |-> FALSE, err |-> e]

\* the response of an op that issues no call
NoResp == [ok |-> TRUE, data |-> None]

\* the failure of call c: the service names the endpoint in its message body
FailureOf(c) == Err(HttpError(500, c.name))

-----------------------------------------------------------------------------
(* ApiClient *)

RECURSIVE trim_end_matches(_, _)
trim_end_matches(s, ch) ==
    IF s # <<>> /\ s[Len(s)] = ch THEN trim_end_matches(SubSeq(s, 1, Len(s) - 1), ch) ELSE s

ApiClient_new(base_url, token, project_token) ==
    [base_url |-> trim_end_matches(base_url, "/"), token |-> token, project_token |-> project_token]

\* the value of TASKSGODZILLA_API_BASE in this model's runs
EnvApiBase == <<"u">>

\* main(): the binding the process starts with (no tokens in the environment)
InitClient == ApiClient_new(EnvApiBase, None, None)

\* Some(text) unless the text is empty
NonEmpty(text) == IF text = <<>> THEN None ELSE Some(text)

-----------------------------------------------------------------------------
(* Text fields, forms and modals (app.rs) *)

InputField(label, value, is_secret) == [label |-> label, value |-> value, is_secret |-> is_secret]

Main == <<"m", "a", "i", "n">>

Digits == <<"0", "1", "2", "3", "4", "5", "6", "7", "8", "9">>

\* i64::to_string, for the ids of the model (below 100)
IdToString(n) ==
    IF n < 10 THEN <<Digits[n + 1]>> ELSE <<Digits[(n \div 10) + 1], Digits[(n % 10) + 1]>>

\* Option<i64>.map(to_string).unwrap_or_default()
IdOrEmpty(o) == IF IsSome(o) THEN IdToString(Unwrap(o)) ELSE <<>>

InitLoginForm(cl) ==
    [ fields |-> << InputField("API base", cl.base_url, FALSE),
                    InputField("API token (optional)", <<>>, TRUE),
                    InputField("Project token (optional)", <<>>, TRUE) >>,
      focus |-> 0 ]

Form(title, fields, action) ==
    [kind |-> "Form", title |-> title, fields |-> fields, focus |-> 0, action |-> action]

Confirm(title, message, action) ==
    [kind |-> "Confirm", title |-> title, message |-> message, action |-> action]

Palette(items) == [kind |-> "Palette", items |-> items, index |-> 0]

open_project_modal(self) ==
    [self EXCEPT !.modal = Some(Form("Create project",
        << InputField("Name", <<>>, FALSE),
           InputField("Git URL", <<>>, FALSE),
           InputField("Base branch", Main, FALSE) >>, "CreateProject"))]

open_protocol_modal(self) ==
    [self EXCEPT !.modal = Some(Form("Create protocol",
        << InputField("Protocol name", <<>>, FALSE),
           InputField("Base branch", Main, FALSE),
           InputField("Description (optional)", <<>>, FALSE) >>, "CreateProtocol"))]

\* a configure form that unbound the gateway when it opened
open_token_modal_unbinding(self) ==
    [self EXCEPT !.client = ApiClient_new(<<>>, None, None),
                 !.modal = Some(Form("Configure API/token",
        << InputField("API base", self.client.base_url, FALSE),
           InputField("API token (optional)", <<>>, TRUE),
           InputField("Project token (optional)", <<>>, TRUE) >>, "TokenConfig"))]

open_token_modal(self) ==
    [self EXCEPT !.modal = Some(Form("Configure API/token",
        << InputField("API base", self.client.base_url, FALSE),
           InputField("API token (optional)", <<>>, TRUE),
           InputField("Project token (optional)", <<>>, TRUE) >>, "TokenConfig"))]

open_spec_audit_modal(self) ==
    [self EXCEPT !.modal = Some(Form("Spec audit",
        << InputField("Project ID (optional)", IdOrEmpty(selected_project_id(self.state)), FALSE),
           InputField("Protocol ID (optional)", IdOrEmpty(selected_protocol_id(self.state)), FALSE),
           InputField("Backfill? (y/N)", <<"y">>, FALSE),
           InputField("Interval seconds (optional)", <<>>, FALSE) >>, "SpecAudit"))]

open_cm_modal(self) ==
    [self EXCEPT !.modal = Some(Form("Import CodeMachine",
        << InputField("Protocol name", <<>>, FALSE),
           InputField("Workspace path", <<>>, FALSE),
           InputField("Base branch", Main, FALSE),
           InputField("Description (optional)", <<>>, FALSE),
           InputField("Enqueue? (y/N)", <<"y">>, FALSE) >>, "ImportCodeMachine"))]

QuickActions ==
    << "RunNext", "RetryLatest", "RunQa", "Approve", "OpenPr", "StartProtocol",
       "PauseProtocol", "ResumeProtocol", "CancelProtocol", "ImportCodeMachine",
       "SpecAudit", "Configure", "Menu" >>

open_action_palette(self) == [self EXCEPT !.modal = Some(Palette(QuickActions))]

\* an open_delete_branch_modal that asked for confirmation whatever the selection
open_delete_branch_modal_unguarded(self) ==
    [self EXCEPT !.modal = Some(Confirm("Delete branch",
        <<"Delete remote branch '",
          IF IsSome(self.state.branch_index)
             /\ IsSome(Get(self.state.branches, Unwrap(self.state.branch_index)))
          THEN Unwrap(Get(self.state.branches, Unwrap(self.state.branch_index)))
          ELSE "", "'?">>,
        "DeleteBranch"))]

open_delete_branch_modal(self) ==
    IF IsSome(self.state.branch_index)
       /\ IsSome(Get(self.state.branches, Unwrap(self.state.branch_index)))
    THEN [self EXCEPT !.modal = Some(Confirm("Delete branch",
            <<"Delete remote branch '",
              Unwrap(Get(self.state.branches, Unwrap(self.state.branch_index))), "'?">>,
            "DeleteBranch"))]
    ELSE self

-----------------------------------------------------------------------------
(* The async fns of App.  Each is an op: XxxCall(self) is the remote call it *)
(* awaits (None when it issues none in that state) and Xxx(self, c, resp) is *)
(* what it has done when it returns, given the response resp to its call c:  *)
(* the new App, the async fns it goes on to call (todo) and its Result.      *)

Op(name, arg) == [op |-> name, arg |-> arg]

\* what a fn returns: Ok(()) with the App it leaves and the ops it still awaits
Ret(app, todo) == [app |-> app, todo |-> todo, result |-> "Ok", quit |-> FALSE]

\* the handler's `return Ok(true)`
Quit(app) == [app |-> app, todo |-> <<>>, result |-> "Ok", quit |-> TRUE]

\* a set_error that kept the slot's first message
set_error_first(self, err) ==
    IF IsSome(self.state.last_error) THEN self
    ELSE [self EXCEPT !.state.last_error = Some(to_string(err))]

set_error(self, err) == [self EXCEPT !.state.last_error = Some(to_string(err))]

\* an index rule that put the cursor on the fallback position at every fetch
ResetIndex(index, len, fallback) == IF len = 0 THEN None ELSE Some(fallback)

\* the index a load_* fn leaves for a freshly stored list: None for an empty list,
\* fallback when the old index is absent or out of range, else the old index
KeepIndex(index, len, fallback) ==
    IF len = 0 THEN None
    ELSE IF (IF IsSome(index) THEN Unwrap(index) >= len ELSE TRUE) THEN Some(fallback)
    ELSE index

load_projectsCall(self) == Some(Call("projects", <<>>, self.client))

load_projects(self, c, resp) ==
    IF resp.ok
    THEN Ret([self EXCEPT !.state.projects = resp.data,
                          !.state.project_index =
                              KeepIndex(self.state.project_index, Len(resp.data), 0)], <<>>)
    ELSE Ret(set_error(self, resp.err), <<>>)

load_protocolsCall(self) ==
    IF IsSome(selected_project_id(self.state))
    THEN Some(Call("protocols", <<Unwrap(selected_project_id(self.state))>>, self.client))
    ELSE None

\* a load_protocols that returned its fetch's error to the caller, whose `?` would
\* end the sequence there
load_protocols_propagating(self, c, resp) ==
    IF ~IsSome(c)
    THEN Ret([self EXCEPT !.state.protocols = <<>>, !.state.protocol_index = None], <<>>)
    ELSE IF resp.ok
    THEN Ret([self EXCEPT !.state.protocols = resp.data,
                          !.state.protocol_index =
                              KeepIndex(self.state.protocol_index, Len(resp.data), 0)], <<>>)
    ELSE [Ret(set_error(self, resp.err), <<>>) EXCEPT !.result = "Err"]

load_protocols(self, c, resp) ==
    IF ~IsSome(c)
    THEN Ret([self EXCEPT !.state.protocols = <<>>, !.state.protocol_index = None], <<>>)
    ELSE IF resp.ok
    THEN Ret([self EXCEPT !.state.protocols = resp.data,
                          !.state.protocol_index =
                              KeepIndex(self.state.protocol_index, Len(resp.data), 0)], <<>>)
    ELSE Ret(set_error(self, resp.err), <<>>)

load_stepsCall(self) ==
    IF IsSome(selected_protocol_id(self.state))
    THEN Some(Call("steps", <<Unwrap(selected_protocol_id(self.state))>>, self.client))
    ELSE None

\* a load_steps that fell back to the first step, as the other lists do
load_steps_first(self, c, resp) ==
    IF ~IsSome(c)
    THEN Ret([self EXCEPT !.state.steps = <<>>, !.state.step_index = None], <<>>)
    ELSE IF resp.ok
    THEN LET kept == IF IsSome(self.state.step_filter)
                     THEN FilterSeq(resp.data, {Unwrap(self.state.step_filter)})
                     ELSE resp.data
         IN  Ret([self EXCEPT !.state.steps = kept,
                              !.state.step_index =
                                  KeepIndex(self.state.step_index, Len(kept), 0)], <<>>)
    ELSE Ret(set_error(self, resp.err), <<>>)

load_steps(self, c, resp) ==
    IF ~IsSome(c)
    THEN Ret([self EXCEPT !.state.steps = <<>>, !.state.step_index = None], <<>>)
    ELSE IF resp.ok
    THEN LET kept == IF IsSome(self.state.step_filter)
                     THEN FilterSeq(resp.data, {Unwrap(self.state.step_filter)})
                     ELSE resp.data
         IN  Ret([self EXCEPT !.state.steps = kept,
                              !.state.step_index =
                                  KeepIndex(self.state.step_index, Len(kept), Len(kept) - 1)], <<>>)
    ELSE Ret(set_error(self, resp.err), <<>>)

load_eventsCall(self) ==
    IF IsSome(selected_protocol_id(self.state))
    THEN Some(Call("events", <<Unwrap(selected_protocol_id(self.state))>>, self.client))
    ELSE None

load_events(self, c, resp) ==
    IF ~IsSome(c)
    THEN Ret([self EXCEPT !.state.events = <<>>, !.state.event_index = None], <<>>)
    ELSE IF resp.ok
    THEN Ret([self EXCEPT !.state.events = resp.data,
                          !.state.event_index =
                              KeepIndex(self.state.event_index, Len(resp.data),
                                        Len(resp.data) - 1)], <<>>)
    ELSE Ret(set_error(self, resp.err), <<>>)

\* the window of load_recent_events
RecentLimit == 50

load_recent_eventsCall(self) == Some(Call("recent_events", <<RecentLimit>>, self.client))

load_recent_events(self, c, resp) ==
    IF resp.ok
    THEN Ret([self EXCEPT !.state.recent_events = resp.data,
                          !.state.recent_event_index =
                              KeepIndex(self.state.recent_event_index, Len(resp.data), 0)], <<>>)
    ELSE Ret(set_error(self, resp.err), <<>>)

\* load_queue awaits twice: the statistics, then the jobs
load_queueCall(self) == Some(Call("queue_stats", <<>>, self.client))

load_queue(self, c, resp) ==
    IF resp.ok
    THEN Ret([self EXCEPT !.state.queue_stats = resp.data], <<Op("load_queue_jobs", <<>>)>>)
    ELSE Ret(set_error(self, resp.err), <<Op("load_queue_jobs", <<>>)>>)

load_queue_jobsCall(self) ==
    Some(Call("queue_jobs", <<self.state.job_status_filter>>, self.client))

load_queue_jobs(self, c, resp) ==
    IF resp.ok
    THEN Ret([self EXCEPT !.state.queue_jobs = resp.data], <<>>)
    ELSE Ret(set_error(self, resp.err), <<>>)

load_branchesCall(self) ==
    IF IsSome(selected_project_id(self.state))
    THEN Some(Call("branches", <<Unwrap(selected_project_id(self.state))>>, self.client))
    ELSE None

load_branches(self, c, resp) ==
    IF ~IsSome(c)
    THEN Ret([self EXCEPT !.state.branches = <<>>, !.state.branch_index = None], <<>>)
    ELSE IF resp.ok
    THEN Ret([self EXCEPT !.state.branches = resp.data,
                          !.state.branch_index =
                              KeepIndex(self.state.branch_index, Len(resp.data), 0)], <<>>)
    ELSE Ret(set_error(self, resp.err), <<>>)

\* a refresh sequence that loaded the branches before the queue
RefreshSequenceBranchesEarly ==
    << Op("load_projects", <<>>), Op("load_protocols", <<>>), Op("load_steps", <<>>),
       Op("load_events", <<>>), Op("load_recent_events", <<>>), Op("load_branches", <<>>),
       Op("load_queue", <<>>) >>

\* the fetches of refresh_all, in the order it awaits them
RefreshSequence ==
    << Op("load_projects", <<>>), Op("load_protocols", <<>>), Op("load_steps", <<>>),
       Op("load_events", <<>>), Op("load_recent_events", <<>>), Op("load_queue", <<>>),
       Op("load_branches", <<>>) >>

\* a refresh_all that ran on every screen
refresh_all_any_screen(self) ==
    Ret([self EXCEPT !.state.refreshing = TRUE,
                     !.state.last_error = None,
                     !.state.status = Str("Refreshing...")],
        RefreshSequence \o <<Op("refresh_all_end", <<>>)>>)

\* refresh_all up to its first await
refresh_all(self) ==
    IF self.screen # "Dashboard" THEN Ret(self, <<>>)
    ELSE Ret([self EXCEPT !.state.refreshing = TRUE,
                          !.state.last_error = None,
                          !.state.status = Str("Refreshing...")],
             RefreshSequence \o <<Op("refresh_all_end", <<>>)>>)

\* a refresh_all that ended with its busy flag still set
refresh_all_end_busy(self) ==
    Ret([self EXCEPT !.state.status = <<"Refreshed in ", "{elapsed}", "ms">>], <<>>)

\* refresh_all after its last await
refresh_all_end(self) ==
    Ret([self EXCEPT !.state.refreshing = FALSE,
                     !.state.status = <<"Refreshed in ", "{elapsed}", "ms">>], <<>>)

\* a timer refresh that dismissed the open modal
refresh_scoped_dismissing(self) == Ret([self EXCEPT !.modal = None], <<Op("refresh_all", <<>>)>>)

refresh_scoped(self) == Ret(self, <<Op("refresh_all", <<>>)>>)

\* a refresh_selection that ran the whole refresh_all
refresh_selection_all(self) == Ret(self, <<Op("refresh_all", <<>>)>>)

refresh_selection(self) ==
    CASE self.state.page \in {"Dashboard", "Projects"} ->
            Ret(self, << Op("load_protocols", <<>>), Op("load_steps", <<>>),
                         Op("load_events", <<>>), Op("load_branches", <<>>) >>)
      [] self.state.page = "Protocols" ->
            Ret(self, << Op("load_steps", <<>>), Op("load_events", <<>>) >>)
      [] self.state.page = "Steps" -> Ret(self, << Op("load_events", <<>>) >>)
      [] OTHER -> Ret(self, <<>>)

-----------------------------------------------------------------------------
(* The action dispatcher *)

\* an action on the selected protocol: its endpoint, awaited only with a protocol selected
ProtocolCall(self, name, arg) ==
    IF IsSome(selected_protocol_id(self.state))
    THEN Some(Call(name, <<Unwrap(selected_protocol_id(self.state))>> \o arg, self.client))
    ELSE None

\* an action on the last step of the cached list (steps.last())
LastStepCall(self, name) ==
    IF self.state.steps # <<>>
    THEN Some(Call(name, <<self.state.steps[Len(self.state.steps)].id>>, self.client))
    ELSE None

\* a dispatcher body that refreshed whatever the outcome of the call
DispatchedAlways(self, c, resp, success) ==
    IF ~IsSome(c) THEN Ret(self, <<>>)
    ELSE Ret(IF resp.ok THEN [self EXCEPT !.state.status = success]
                        ELSE set_error(self, resp.err),
             <<Op("refresh_all", <<>>)>>)

\* the common body of the dispatcher's fns: on Ok set the status and refresh_all,
\* on Err set_error, and nothing when the call was not issued
Dispatched(self, c, resp, success) ==
    IF ~IsSome(c) THEN Ret(self, <<>>)
    ELSE IF resp.ok
    THEN Ret([self EXCEPT !.state.status = success], <<Op("refresh_all", <<>>)>>)
    ELSE Ret(set_error(self, resp.err), <<>>)

run_nextCall(self) == ProtocolCall(self, "step_run_next", <<>>)

\* a run_next that set its status without refreshing
run_next_unrefreshed(self, c, resp) ==
    IF ~IsSome(c) THEN Ret(self, <<>>)
    ELSE IF resp.ok THEN Ret([self EXCEPT !.state.status = Str("Run next enqueued")], <<>>)
    ELSE Ret(set_error(self, resp.err), <<>>)

run_next(self, c, resp) == Dispatched(self, c, resp, Str("Run next enqueued"))

retry_latestCall(self) == ProtocolCall(self, "step_retry_latest", <<>>)

retry_latest(self, c, resp) == Dispatched(self, c, resp, Str("Retry enqueued"))

run_qa_latestCall(self) == LastStepCall(self, "step_run_qa")

run_qa_latest(self, c, resp) == Dispatched(self, c, resp, Str("QA enqueued"))

approve_latestCall(self) == LastStepCall(self, "step_approve")

approve_latest(self, c, resp) == Dispatched(self, c, resp, Str("Approved"))

open_prCall(self) == ProtocolCall(self, "protocol_open_pr", <<>>)

open_pr(self, c, resp) == Dispatched(self, c, resp, Str("Open PR enqueued"))

protocol_actionCall(self, action) == ProtocolCall(self, "protocol_action", <<action>>)

protocol_action(self, c, resp, success) == Dispatched(self, c, resp, Str(success))

\* a step-filter order without the needs_qa stage
FilterOrderOfFour == << None, Some("pending"), Some("running"), Some("failed") >>

FilterOrder == << None, Some("pending"), Some("running"), Some("needs_qa"), Some("failed") >>

JobFilterOrder == << None, Some("queued"), Some("started"), Some("failed"), Some("finished") >>

\* order.iter().position(|v| v == current).unwrap_or(0), 0-based
Position(order, current) ==
    IF \E i \in 1..Len(order) : order[i] = current
    THEN (CHOOSE i \in 1..Len(order) : order[i] = current /\ \A j \in 1..(i - 1) : order[j] # current) - 1
    ELSE 0

\* order[(idx + 1) % order.len()]
NextInOrder(order, current) == order[((Position(order, current) + 1) % Len(order)) + 1]

\* Option<String>.unwrap_or("all")
OrAll(filter) == IF IsSome(filter) THEN Unwrap(filter) ELSE "all"

cycle_job_filter(self) ==
    LET next == NextInOrder(JobFilterOrder, self.state.job_status_filter)
    IN  Ret([self EXCEPT !.state.job_status_filter = next,
                         !.state.status = <<"Job filter: ", OrAll(next)>>],
            <<Op("load_queue", <<>>)>>)

cycle_step_filter(self) ==
    LET next == NextInOrder(FilterOrder, self.state.step_filter)
    IN  Ret([self EXCEPT !.state.step_filter = next,
                         !.state.status = <<"Step filter: ", OrAll(next)>>],
            <<Op("load_steps", <<>>)>>)

-----------------------------------------------------------------------------
(* Form submission *)

DigitValue(ch) == (CHOOSE i \in 1..Len(Digits) : Digits[i] = ch) - 1

IsDigit(ch) == \E i \in 1..Len(Digits) : Digits[i] = ch

RECURSIVE DigitsValue(_)
DigitsValue(s) ==
    IF s = <<>> THEN 0 ELSE 10 * DigitsValue(SubSeq(s, 1, Len(s) - 1)) + DigitValue(s[Len(s)])

\* str::parse::<i64>().ok(): an optional sign, then one digit or more
ParseInt(s) ==
    LET body == IF s # <<>> /\ Head(s) \in {"+", "-"} THEN Tail(s) ELSE s
    IN  IF body # <<>> /\ \A i \in 1..Len(body) : IsDigit(body[i])
        THEN Some(IF Head(s) = "-" THEN 0 - DigitsValue(body) ELSE DigitsValue(body))
        ELSE None

\* value.trim().to_lowercase().starts_with('y')
StartsWithY(s) == Trim(s) # <<>> /\ Head(Trim(s)) \in {"y", "Y"}

\* fields[i].value.trim(), with the 0-based index of the code
Field(fields, i) == Trim(fields[i + 1].value)

\* fields.get(i).and_then(parse)
FieldInt(fields, i) == IF i < Len(fields) THEN ParseInt(Field(fields, i)) ELSE None

OrMain(branch) == IF branch = <<>> THEN Main ELSE branch

\* a create-project check that rejected the form only when both texts are missing
name_and_git_empty(fields) == Field(fields, 0) = <<>> /\ Field(fields, 1) = <<>>

\* name.is_empty() || git.is_empty()
name_or_git_empty(fields) == Field(fields, 0) = <<>> \/ Field(fields, 1) = <<>>

\* the remote call handle_form_submit awaits, None when it returns before any
handle_form_submitCall(self, action, fields) ==
    CASE action = "CreateProject" ->
            IF Len(fields) >= 3 /\ ~name_or_git_empty(fields)
            THEN Some(Call("create_project",
                           <<Field(fields, 0), Field(fields, 1), OrMain(Field(fields, 2))>>,
                           self.client))
            ELSE None
      [] action = "CreateProtocol" ->
            IF IsSome(selected_project_id(self.state)) /\ Len(fields) >= 3
               /\ Field(fields, 0) # <<>>
            THEN Some(Call("create_protocol",
                           <<Unwrap(selected_project_id(self.state)), Field(fields, 0),
                             OrMain(Field(fields, 1)), NonEmpty(Field(fields, 2))>>,
                           self.client))
            ELSE None
      [] action = "SpecAudit" ->
            Some(Call("spec_audit",
                      <<FieldInt(fields, 0), FieldInt(fields, 1),
                        IF 2 < Len(fields) THEN StartsWithY(fields[3].value) ELSE FALSE,
                        FieldInt(fields, 3)>>,
                      self.client))
      [] action = "ImportCodeMachine" ->
            IF IsSome(selected_project_id(self.state)) /\ Len(fields) >= 5
               /\ Field(fields, 0) # <<>> /\ Field(fields, 1) # <<>>
            THEN Some(Call("import_codemachine",
                           <<Unwrap(selected_project_id(self.state)), Field(fields, 0),
                             Field(fields, 1), OrMain(Field(fields, 2)),
                             NonEmpty(Field(fields, 3)), StartsWithY(fields[5].value)>>,
                           self.client))
            ELSE None
      [] action = "TokenConfig" -> None
      [] action = "DeleteBranch" ->
            IF IsSome(self.state.branch_index)
               /\ IsSome(Get(self.state.branches, Unwrap(self.state.branch_index)))
               /\ IsSome(selected_project_id(self.state))
            THEN Some(Call("delete_branch",
                           <<Unwrap(selected_project_id(self.state)),
                             Unwrap(Get(self.state.branches, Unwrap(self.state.branch_index)))>>,
                           self.client))
            ELSE None

handle_form_submit(self, action, fields, c, resp) ==
    CASE action = "CreateProject" ->
            IF Len(fields) < 3 THEN Ret(self, <<>>)
            ELSE IF name_or_git_empty(fields)
            THEN Ret([self EXCEPT !.state.last_error = Some(Str("Name and Git URL required"))], <<>>)
            ELSE IF resp.ok
            THEN Ret([self EXCEPT !.state.status = <<"Created project ", resp.data.id>>],
                     <<Op("refresh_all", <<>>)>>)
            ELSE Ret(set_error(self, resp.err), <<>>)
      [] action = "CreateProtocol" ->
            IF ~IsSome(selected_project_id(self.state))
            THEN Ret([self EXCEPT !.state.last_error = Some(Str("Select a project first"))], <<>>)
            ELSE IF Len(fields) < 3 THEN Ret(self, <<>>)
            ELSE IF Field(fields, 0) = <<>>
            THEN Ret([self EXCEPT !.state.last_error = Some(Str("Protocol name required"))], <<>>)
            ELSE IF resp.ok
            THEN Ret([self EXCEPT !.state.protocol_index = None,
                                  !.state.status = <<"Created protocol ", resp.data.id>>],
                     <<Op("refresh_all", <<>>)>>)
            ELSE Ret(set_error(self, resp.err), <<>>)
      [] action = "SpecAudit" ->
            IF resp.ok
            THEN Ret([self EXCEPT !.state.status = Str("Spec audit enqueued")], <<>>)
            ELSE Ret(set_error(self, resp.err), <<>>)
      [] action = "ImportCodeMachine" ->
            IF ~IsSome(selected_project_id(self.state))
            THEN Ret([self EXCEPT !.state.last_error = Some(Str("Select a project first"))], <<>>)
            ELSE IF Len(fields) < 5 THEN Ret(self, <<>>)
            ELSE IF Field(fields, 0) = <<>> \/ Field(fields, 1) = <<>>
            THEN Ret([self EXCEPT !.state.last_error =
                          Some(Str("Protocol name and workspace path required"))], <<>>)
            ELSE IF resp.ok
            THEN Ret([self EXCEPT !.state.status = Str("Import enqueued")],
                     <<Op("refresh_all", <<>>)>>)
            ELSE Ret(set_error(self, resp.err), <<>>)
      [] action = "TokenConfig" ->
            IF Len(fields) >= 3 /\ Field(fields, 0) # <<>>
            THEN Ret([self EXCEPT !.client = ApiClient_new(Field(fields, 0),
                                                           NonEmpty(Field(fields, 1)),
                                                           NonEmpty(Field(fields, 2))),
                                  !.state.status = <<"API base set to ", Field(fields, 0)>>], <<>>)
            ELSE Ret(self, <<>>)
      [] action = "DeleteBranch" ->
            IF ~IsSome(c) THEN Ret(self, <<>>)
            ELSE IF resp.ok
            THEN Ret([self EXCEPT !.state.status = <<"Deleted branch ", Unwrap(c).arg[2]>>],
                     <<Op("load_branches", <<>>)>>)
            ELSE Ret(set_error(self, resp.err), <<>>)

handle_modal_submit(self, action) ==
    IF action = "DeleteBranch"
    THEN Ret(self, <<Op("handle_form_submit", <<action, <<>>>>)>>)
    ELSE Ret(self, <<>>)

-----------------------------------------------------------------------------
(* Keys.  A key is the name of its KeyCode, a character key is the character *)
(* itself, and "Ctrl-c" is KeyCode::Char('c') with the CONTROL modifier.     *)

Chars ==
    { "q", "r", "m", "h", "?", "g", "R", "c", "i", "A", "w", "b", "d", "J",
      "1", "2", "3", "4", "5", "6", "7", "j", "k", "[", "]", "f", "n", "t",
      "y", "a", "o", "s", "p", "e", "x", " ", "/", "z" }

SpecialKeys ==
    { "Enter", "Esc", "Tab", "BackTab", "Up", "Down", "Left", "Right", "Backspace", "F1" }

AllKeys == Chars \cup SpecialKeys \cup {"Ctrl-c"}

\* key.code, for the character keys
Code(key) == IF key = "Ctrl-c" THEN "c" ELSE key

IsChar(key) == Code(key) \in Chars

\* index - 1, wrapping to the last of n items
WrapPrev(index, n) == IF index = 0 THEN Max(n - 1, 0) ELSE index - 1

\* (index + 1) % n
WrapNext(index, n) == (index + 1) % n

run_quick_action(self, action) ==
    CASE action = "RunNext" -> Ret(self, <<Op("run_next", <<>>)>>)
      [] action = "RetryLatest" -> Ret(self, <<Op("retry_latest", <<>>)>>)
      [] action = "RunQa" -> Ret(self, <<Op("run_qa_latest", <<>>)>>)
      [] action = "Approve" -> Ret(self, <<Op("approve_latest", <<>>)>>)
      [] action = "OpenPr" -> Ret(self, <<Op("open_pr", <<>>)>>)
      [] action = "StartProtocol" ->
            Ret(self, <<Op("protocol_action", <<"start", "Planning enqueued.">>)>>)
      [] action = "PauseProtocol" ->
            Ret(self, <<Op("protocol_action", <<"pause", "Protocol paused.">>)>>)
      [] action = "ResumeProtocol" ->
            Ret(self, <<Op("protocol_action", <<"resume", "Protocol resumed.">>)>>)
      [] action = "CancelProtocol" ->
            Ret(self, <<Op("protocol_action", <<"cancel", "Protocol cancelled.">>)>>)
      [] action = "ImportCodeMachine" -> Ret(open_cm_modal(self), <<>>)
      [] action = "SpecAudit" -> Ret(open_spec_audit_modal(self), <<>>)
      [] action = "Configure" -> Ret(open_token_modal(self), <<>>)
      [] action = "Menu" -> Ret([self EXCEPT !.screen = "Menu", !.menu_index = 0], <<>>)

\* a handle_modal_key that left the modal open while its action ran
\* a modal that let the quit keys through to the loop
handle_modal_key_interruptible(self, key) ==
    IF key \in {"q", "Ctrl-c"} THEN Quit(self) ELSE Ret([self EXCEPT !.modal = None], <<>>)

handle_modal_key_open(self, key) ==
    LET m == Unwrap(self.modal)
        closed == [self EXCEPT !.modal = None]
    IN  IF key = "Enter" /\ m.kind = "Confirm" THEN handle_modal_submit(self, m.action)
        ELSE IF key = "Enter" /\ m.kind = "Form"
        THEN Ret(self, <<Op("handle_form_submit", <<m.action, m.fields>>)>>)
        ELSE IF key = "Enter" /\ m.kind = "Palette" /\ IsSome(Get(m.items, m.index))
        THEN run_quick_action(closed, Unwrap(Get(m.items, m.index)))
        ELSE IF key \in {"Enter", "Esc"} THEN Ret(closed, <<>>)
        ELSE IF m.kind = "Form" /\ IsChar(key) /\ m.focus < Len(m.fields)
        THEN Ret([self EXCEPT !.modal =
                      Some([m EXCEPT !.fields[m.focus + 1].value = Append(@, Code(key))])], <<>>)
        ELSE Ret(self, <<>>)

\* handle_modal_key with a modal open (it returns Ok(true): the key is consumed)
handle_modal_key(self, key) ==
    LET m == Unwrap(self.modal)
        closed == [self EXCEPT !.modal = None]
    IN  CASE m.kind = "Message" ->
                IF key \in {"Enter", "Esc"} THEN Ret(closed, <<>>) ELSE Ret(self, <<>>)
          [] m.kind = "Confirm" ->
                IF key = "Enter" THEN handle_modal_submit(closed, m.action)
                ELSE IF key = "Esc" THEN Ret(closed, <<>>)
                ELSE Ret(self, <<>>)
          [] m.kind = "Palette" ->
                IF Code(key) \in {"Up", "k"}
                THEN Ret([self EXCEPT !.modal = Some([m EXCEPT !.index = WrapPrev(m.index, Len(m.items))])], <<>>)
                ELSE IF Code(key) \in {"Down", "j"}
                THEN Ret([self EXCEPT !.modal = Some([m EXCEPT !.index = WrapNext(m.index, Len(m.items))])], <<>>)
                ELSE IF key = "Enter"
                THEN IF IsSome(Get(m.items, m.index))
                     THEN run_quick_action(closed, Unwrap(Get(m.items, m.index)))
                     ELSE Ret(closed, <<>>)
                ELSE IF key = "Esc" THEN Ret(closed, <<>>)
                ELSE Ret(self, <<>>)
          [] m.kind = "Form" ->
                IF key = "Tab"
                THEN Ret([self EXCEPT !.modal = Some([m EXCEPT !.focus = WrapNext(m.focus, Len(m.fields))])], <<>>)
                ELSE IF key = "BackTab"
                THEN Ret([self EXCEPT !.modal = Some([m EXCEPT !.focus = WrapPrev(m.focus, Len(m.fields))])], <<>>)
                ELSE IF key = "Enter"
                THEN Ret(closed, <<Op("handle_form_submit", <<m.action, m.fields>>)>>)
                ELSE IF key = "Esc" THEN Ret(closed, <<>>)
                ELSE IF key = "Backspace"
                THEN IF m.focus < Len(m.fields)
                     THEN Ret([self EXCEPT !.modal = Some([m EXCEPT !.fields[m.focus + 1].value = Pop(@)])], <<>>)
                     ELSE Ret(self, <<>>)
                ELSE IF IsChar(key)
                THEN IF m.focus < Len(m.fields)
                     THEN Ret([self EXCEPT !.modal = Some([m EXCEPT !.fields[m.focus + 1].value = Append(@, Code(key))])], <<>>)
                     ELSE Ret(self, <<>>)
                ELSE Ret(self, <<>>)

\* the menu of the welcome screen
WelcomeItems == <<"Start TasksGodzilla", "Settings", "Help", "Version", "Quit">>

\* a welcome screen whose Start entered the dashboard without refreshing it
handle_welcome_key_unrefreshed(self, key) ==
    IF key = "Enter" /\ self.welcome_index = 0
    THEN Ret([self EXCEPT !.screen = IF self.auto_login THEN "Dashboard" ELSE "Login"], <<>>)
    ELSE Ret(self, <<>>)

handle_welcome_key(self, key) ==
    LET n == Len(WelcomeItems)
        c == Code(key)
    IN  CASE c \in {"Up", "k", "BackTab"} ->
                Ret([self EXCEPT !.welcome_index = WrapPrev(self.welcome_index, n)], <<>>)
          [] c \in {"Down", "j", "Tab"} ->
                Ret([self EXCEPT !.welcome_index = WrapNext(self.welcome_index, n)], <<>>)
          [] c \in {"1", "2", "3", "4", "5"} ->
                Ret([self EXCEPT !.welcome_index = DigitValue(c) - 1], <<>>)
          [] c = "Enter" ->
                ( CASE self.welcome_index = 0 ->
                          IF self.auto_login
                          THEN Ret([self EXCEPT !.screen = "Dashboard"], <<Op("refresh_all", <<>>)>>)
                          ELSE Ret([self EXCEPT !.screen = "Login"], <<>>)
                    [] self.welcome_index = 1 -> Ret([self EXCEPT !.screen = "SettingsInfo"], <<>>)
                    [] self.welcome_index = 2 -> Ret([self EXCEPT !.screen = "Help"], <<>>)
                    [] self.welcome_index = 3 -> Ret([self EXCEPT !.screen = "Version"], <<>>)
                    [] self.welcome_index = 4 -> Quit(self)
                    [] OTHER -> Ret(self, <<>>) )
          [] c \in {"Esc", "q"} -> Quit(self)
          [] OTHER -> Ret(self, <<>>)

handle_login_key(self, key) ==
    LET f == self.login_form
        n == Len(f.fields)
    IN  CASE key = "Tab" -> Ret([self EXCEPT !.login_form.focus = WrapNext(f.focus, n)], <<>>)
          [] key = "BackTab" ->
                Ret([self EXCEPT !.login_form.focus = IF f.focus = 0 THEN n - 1 ELSE f.focus - 1], <<>>)
          [] key = "Enter" ->
                IF Field(f.fields, 0) = <<>>
                THEN Ret([self EXCEPT !.state.status = Str("API base required")], <<>>)
                ELSE Ret([self EXCEPT !.client = ApiClient_new(Field(f.fields, 0),
                                                               NonEmpty(Field(f.fields, 1)),
                                                               NonEmpty(Field(f.fields, 2))),
                                      !.state.status = <<"Connected to ", Field(f.fields, 0)>>,
                                      !.screen = "Menu",
                                      !.menu_index = 0], <<>>)
          [] key = "Esc" -> Quit(self)
          [] key = "Backspace" ->
                IF f.focus < n
                THEN Ret([self EXCEPT !.login_form.fields[f.focus + 1].value = Pop(@)], <<>>)
                ELSE Ret(self, <<>>)
          [] IsChar(key) ->
                IF f.focus < n
                THEN Ret([self EXCEPT !.login_form.fields[f.focus + 1].value = Append(@, Code(key))], <<>>)
                ELSE Ret(self, <<>>)
          [] OTHER -> Ret(self, <<>>)

\* the main menu
MenuItems == <<"Dashboard", "Configure API/token", "Quit">>

handle_menu_key(self, key) ==
    LET n == Len(MenuItems)
        c == Code(key)
    IN  CASE c \in {"Up", "BackTab", "k"} ->
                Ret([self EXCEPT !.menu_index = IF self.menu_index = 0 THEN n - 1 ELSE self.menu_index - 1], <<>>)
          [] c \in {"Down", "Tab", "j"} ->
                Ret([self EXCEPT !.menu_index = WrapNext(self.menu_index, n)], <<>>)
          [] c = "1" ->
                Ret([self EXCEPT !.menu_index = 0, !.screen = "Dashboard"], <<Op("refresh_all", <<>>)>>)
          [] c = "2" -> Ret(open_token_modal([self EXCEPT !.menu_index = 1]), <<>>)
          [] c = "3" -> Quit(self)
          [] c = "Enter" ->
                ( CASE self.menu_index = 0 ->
                          Ret([self EXCEPT !.screen = "Dashboard"], <<Op("refresh_all", <<>>)>>)
                    [] self.menu_index = 1 -> Ret(open_token_modal(self), <<>>)
                    [] self.menu_index = 2 -> Quit(self)
                    [] OTHER -> Ret(self, <<>>) )
          [] c = "q" -> Quit(self)
          [] c = "Esc" -> Ret([self EXCEPT !.screen = "Login"], <<>>)
          [] OTHER -> Ret(self, <<>>)

\* information screens on which every key fetched the projects
handle_info_key_fetching(self, key) == Ret(self, <<Op("load_projects", <<>>)>>)

handle_info_key(self, key) ==
    LET c == Code(key)
        welcome == Ret([self EXCEPT !.screen = "Welcome"], <<>>)
        menu == Ret([self EXCEPT !.screen = "Menu", !.menu_index = 0], <<>>)
    IN  CASE self.screen = "SettingsInfo" ->
                ( CASE c = "c" -> Ret(open_token_modal(self), <<>>)
                    [] c = "Enter" ->
                          Ret([self EXCEPT !.screen = "Dashboard", !.state.page = "Settings"],
                              <<Op("refresh_all", <<>>)>>)
                    [] c \in {"Esc", "q", "w"} -> welcome
                    [] c = "m" -> menu
                    [] OTHER -> Ret(self, <<>>) )
          [] self.screen = "Help" ->
                ( CASE c = "Enter" ->
                          Ret([self EXCEPT !.screen = "Dashboard"], <<Op("refresh_all", <<>>)>>)
                    [] c \in {"Esc", "q", "w"} -> welcome
                    [] c = "m" -> menu
                    [] OTHER -> Ret(self, <<>>) )
          [] self.screen = "Version" ->
                ( CASE c \in {"Esc", "q", "w"} -> welcome
                    [] c = "m" -> menu
                    [] OTHER -> Ret(self, <<>>) )
          [] OTHER -> Ret(self, <<>>)

handle_down(self) ==
    LET st == self.state
    IN  CASE st.page \in {"Dashboard", "Projects"} -> [self EXCEPT !.state = select_project(st, 1)]
          [] st.page = "Protocols" -> [self EXCEPT !.state = select_protocol(st, 1)]
          [] st.page = "Steps" -> [self EXCEPT !.state = select_step(st, 1)]
          [] st.page = "Events" -> [self EXCEPT !.state = select_event(st, 1)]
          [] st.page = "Queues" ->
                IF IsSome(st.branch_index)
                THEN [self EXCEPT !.state.branch_index =
                         Some(Min(Unwrap(st.branch_index) + 1, Max(Len(st.branches) - 1, 0)))]
                ELSE self
          [] OTHER -> self

handle_up(self) ==
    LET st == self.state
    IN  CASE st.page \in {"Dashboard", "Projects"} -> [self EXCEPT !.state = select_project(st, -1)]
          [] st.page = "Protocols" -> [self EXCEPT !.state = select_protocol(st, -1)]
          [] st.page = "Steps" -> [self EXCEPT !.state = select_step(st, -1)]
          [] st.page = "Events" -> [self EXCEPT !.state = select_event(st, -1)]
          [] st.page = "Queues" ->
                IF IsSome(st.branch_index)
                THEN [self EXCEPT !.state.branch_index = Some(Max(Unwrap(st.branch_index) - 1, 0))]
                ELSE self
          [] OTHER -> self

HelpStatus == Str("Keys: tab/shift+tab pages, arrows/j/k move, r refresh, q quit, ...")

\* the key handler of the Dashboard screen
handle_key(self, key) ==
    LET c == Code(key)
    IN  CASE key = "Ctrl-c" -> Quit(self)
          [] key = "q" -> Quit(self)
          [] key = "r" -> Ret(self, <<Op("refresh_all", <<>>)>>)
          [] key = "m" -> Ret([self EXCEPT !.screen = "Menu", !.menu_index = 0], <<>>)
          [] key \in {"h", "?"} -> Ret([self EXCEPT !.state.status = HelpStatus], <<>>)
          [] key = "g" -> Ret(open_project_modal(self), <<>>)
          [] key = "R" -> Ret(open_protocol_modal(self), <<>>)
          [] key = "c" -> Ret(open_token_modal(self), <<>>)
          [] key = "i" -> Ret(open_cm_modal(self), <<>>)
          [] key = "A" -> Ret(open_spec_audit_modal(self), <<>>)
          [] key = "w" -> Ret([self EXCEPT !.screen = "Welcome", !.welcome_index = 0], <<>>)
          [] key = "Enter" -> Ret(open_action_palette(self), <<>>)
          [] key = "b" -> Ret(self, <<Op("load_branches", <<>>)>>)
          [] key = "d" -> Ret(open_delete_branch_modal(self), <<>>)
          [] key = "J" -> cycle_job_filter(self)
          [] key \in {"Tab", "Right"} -> Ret([self EXCEPT !.state.page = page_next(@)], <<>>)
          [] key \in {"BackTab", "Left"} -> Ret([self EXCEPT !.state.page = page_prev(@)], <<>>)
          [] key \in {"1", "2", "3", "4", "5", "6", "7"} ->
                Ret([self EXCEPT !.state.page = Pages[DigitValue(key)]], <<>>)
          [] key \in {"Down", "j"} -> refresh_selection(handle_down(self))
          [] key \in {"Up", "k"} -> refresh_selection(handle_up(self))
          [] key = "[" -> Ret([self EXCEPT !.state = select_branch(@, -1)], <<>>)
          [] key = "]" -> Ret([self EXCEPT !.state = select_branch(@, 1)], <<>>)
          [] key = "f" -> cycle_step_filter(self)
          [] key = "n" -> Ret(self, <<Op("run_next", <<>>)>>)
          [] key = "t" -> Ret(self, <<Op("retry_latest", <<>>)>>)
          [] key = "y" -> Ret(self, <<Op("run_qa_latest", <<>>)>>)
          [] key = "a" -> Ret(self, <<Op("approve_latest", <<>>)>>)
          [] key = "o" -> Ret(self, <<Op("open_pr", <<>>)>>)
          [] key = "s" -> Ret(self, <<Op("protocol_action", <<"start", "Planning enqueued.">>)>>)
          [] key = "p" -> Ret(self, <<Op("protocol_action", <<"pause", "Protocol paused.">>)>>)
          [] key = "e" -> Ret(self, <<Op("protocol_action", <<"resume", "Protocol resumed.">>)>>)
          [] key = "x" -> Ret(self, <<Op("protocol_action", <<"cancel", "Protocol cancelled.">>)>>)
          [] OTHER -> Ret(self, <<>>)

\* a handle_event that went to the screen's handler without asking the modal
handle_event_screen_only(self, key) ==
    IF self.screen = "Welcome" THEN handle_welcome_key(self, key)
    ELSE IF self.screen \in {"SettingsInfo", "Help", "Version"} THEN handle_info_key(self, key)
    ELSE IF self.screen = "Login" THEN handle_login_key(self, key)
    ELSE IF self.screen = "Menu" THEN handle_menu_key(self, key)
    ELSE handle_key(self, key)

\* handle_event for Event::Key: an open modal takes the key, else the screen's handler
handle_event(self, key) ==
    IF IsSome(self.modal) THEN handle_modal_key(self, key)
    ELSE IF self.screen = "Welcome" THEN handle_welcome_key(self, key)
    ELSE IF self.screen \in {"SettingsInfo", "Help", "Version"} THEN handle_info_key(self, key)
    ELSE IF self.screen = "Login" THEN handle_login_key(self, key)
    ELSE IF self.screen = "Menu" THEN handle_menu_key(self, key)
    ELSE handle_key(self, key)

-----------------------------------------------------------------------------
(* Running the ops: the executor's view of the async fns *)

\* the remote call op o awaits first when it starts in self (None: it awaits none)
CallOf(self, o) ==
    CASE o.op = "load_projects" -> load_projectsCall(self)
      [] o.op = "load_protocols" -> load_protocolsCall(self)
      [] o.op = "load_steps" -> load_stepsCall(self)
      [] o.op = "load_events" -> load_eventsCall(self)
      [] o.op = "load_recent_events" -> load_recent_eventsCall(self)
      [] o.op = "load_queue" -> load_queueCall(self)
      [] o.op = "load_queue_jobs" -> load_queue_jobsCall(self)
      [] o.op = "load_branches" -> load_branchesCall(self)
      [] o.op = "run_next" -> run_nextCall(self)
      [] o.op = "retry_latest" -> retry_latestCall(self)
      [] o.op = "run_qa_latest" -> run_qa_latestCall(self)
      [] o.op = "approve_latest" -> approve_latestCall(self)
      [] o.op = "open_pr" -> open_prCall(self)
      [] o.op = "protocol_action" -> protocol_actionCall(self, o.arg[1])
      [] o.op = "handle_form_submit" -> handle_form_submitCall(self, o.arg[1], o.arg[2])
      [] OTHER -> None

\* op o run to its return, given the response to the call it awaited
StepOf(self, o, c, resp) ==
    CASE o.op = "refresh_all" -> refresh_all(self)
      [] o.op = "refresh_all_end" -> refresh_all_end(self)
      [] o.op = "load_projects" -> load_projects(self, c, resp)
      [] o.op = "load_protocols" -> load_protocols(self, c, resp)
      [] o.op = "load_steps" -> load_steps(self, c, resp)
      [] o.op = "load_events" -> load_events(self, c, resp)
      [] o.op = "load_recent_events" -> load_recent_events(self, c, resp)
      [] o.op = "load_queue" -> load_queue(self, c, resp)
      [] o.op = "load_queue_jobs" -> load_queue_jobs(self, c, resp)
      [] o.op = "load_branches" -> load_branches(self, c, resp)
      [] o.op = "run_next" -> run_next(self, c, resp)
      [] o.op = "retry_latest" -> retry_latest(self, c, resp)
      [] o.op = "run_qa_latest" -> run_qa_latest(self, c, resp)
      [] o.op = "approve_latest" -> approve_latest(self, c, resp)
      [] o.op = "open_pr" -> open_pr(self, c, resp)
      [] o.op = "protocol_action" -> protocol_action(self, c, resp, o.arg[2])
      [] o.op = "handle_form_submit" -> handle_form_submit(self, o.arg[1], o.arg[2], c, resp)

RECURSIVE Run(_, _)
\* run the ops of todo in order until one awaits a remote call (call is then that
\* call and todo starts with the suspended op), all have returned, or one returns
\* Err, which `?` propagates: the ops after it are not run
Run(self, todo) ==
    IF todo = <<>> THEN [app |-> self, todo |-> <<>>, call |-> None, result |-> "Ok"]
    ELSE IF IsSome(CallOf(self, Head(todo)))
    THEN [app |-> self, todo |-> todo, call |-> CallOf(self, Head(todo)), result |-> "Ok"]
    ELSE LET r == StepOf(self, Head(todo), None, NoResp)
         IN  IF r.result = "Err"
             THEN [app |-> r.app, todo |-> <<>>, call |-> None, result |-> "Err"]
             ELSE Run(r.app, r.todo \o Tail(todo))

-----------------------------------------------------------------------------
(* The event loop of App::run *)

\* the App struct
Self ==
    [ state |-> state, client |-> client, modal |-> modal, screen |-> screen,
      auto_login |-> auto_login, login_form |-> login_form, menu_index |-> menu_index,
      welcome_index |-> welcome_index ]

SetSelf(app) ==
    /\ state' = app.state
    /\ client' = app.client
    /\ modal' = app.modal
    /\ screen' = app.screen
    /\ auto_login' = app.auto_login
    /\ login_form' = app.login_form
    /\ menu_index' = app.menu_index
    /\ welcome_index' = app.welcome_index

\* App::new and the state of run() when it enters its loop on the Welcome screen,
\* with the environment's defaults (auto-login enabled)
Init ==
    /\ state = InitState
    /\ client = InitClient
    /\ modal = None
    /\ screen = "Welcome"
    /\ auto_login = TRUE
    /\ login_form = InitLoginForm(InitClient)
    /\ menu_index = 0
    /\ welcome_index = 0
    /\ inflight = <<>>
    /\ missed = 1
    /\ running = "running"
    /\ raw_mode = TRUE
    /\ server = MaxSize
    /\ nkeys = 0
    /\ nfail = 0

\* App::new with TASKSGODZILLA_TUI_AUTOLOGIN set either way
InitAnyLogin ==
    /\ auto_login \in BOOLEAN
    /\ state = InitState
    /\ client = InitClient
    /\ modal = None
    /\ screen = "Welcome"
    /\ login_form = InitLoginForm(InitClient)
    /\ menu_index = 0
    /\ welcome_index = 0
    /\ inflight = <<>>
    /\ missed = 1
    /\ running = "running"
    /\ raw_mode = TRUE
    /\ server = MaxSize
    /\ nkeys = 0
    /\ nfail = 0

\* a loop that polled its sources while a handler is still suspended on a call
SelectWhileSuspended == running = "running"

\* the loop is suspended in select!: no handler is in flight
SelectReady == running = "running" /\ inflight = <<>>

\* a handler suspended on its remote call: the event it handles, the App when the
\* event was taken, the calls it has issued with the results ("ok", "err") of those
\* that have returned, the ops it has still to run (the suspended one first) and
\* the call in flight
Frame(event, pre, calls, results, todo, call) ==
    [ event |-> event, pre |-> pre, calls |-> calls, results |-> results,
      todo |-> todo, call |-> call ]

\* the loop after a handler has run as far as r: suspended on a call, back in
\* select!, or left with the error `?` propagated out of run() (no cleanup)
Proceed(r, event, pre, calls, results, rest) ==
    /\ SetSelf(r.app)
    /\ inflight' = IF IsSome(r.call)
                   THEN <<Frame(event, pre, Append(calls, Unwrap(r.call)), results,
                                r.todo, Unwrap(r.call))>> \o rest
                   ELSE rest
    /\ running' = IF r.result = "Err" THEN "failed" ELSE running
    /\ raw_mode' = raw_mode

\* the text a character key would be appended to, if any
PushTarget(self, key) ==
    IF ~IsChar(key) THEN None
    ELSE IF IsSome(self.modal)
    THEN IF Unwrap(self.modal).kind = "Form" /\ Unwrap(self.modal).focus < Len(Unwrap(self.modal).fields)
         THEN Some(Unwrap(self.modal).fields[Unwrap(self.modal).focus + 1].value)
         ELSE None
    ELSE IF self.screen = "Login" /\ self.login_form.focus < Len(self.login_form.fields)
    THEN Some(self.login_form.fields[self.login_form.focus + 1].value)
    ELSE None

\* reader.next() resolves with a key event: handle_event runs (the operator
\* presses at most budget keys in a run)
KeyEventWithin(key, budget) ==
    /\ SelectReady
    /\ nkeys < budget
    /\ IsSome(PushTarget(Self, key)) => Len(Unwrap(PushTarget(Self, key))) < MaxText
    /\ nkeys' = nkeys + 1
    /\ UNCHANGED <<missed, server, nfail>>
    /\ LET h == handle_event(Self, key)
       IN  IF h.quit
           THEN /\ SetSelf(h.app)
                /\ running' = "exited"
                /\ raw_mode' = FALSE
                /\ inflight' = inflight
           ELSE Proceed(Run(h.app, h.todo), [kind |-> "key", key |-> key], Self,
                        <<>>, <<>>, inflight)

KeyEvent(key) == KeyEventWithin(key, MaxKeys)

\* terminal.draw at the top of the loop fails (an I/O error on stdout): its `?`
\* returns the error out of run(), past the cleanup after the loop
DrawFails ==
    /\ SelectReady
    /\ running' = "failed"
    /\ UNCHANGED <<state, client, modal, screen, auto_login, login_form, menu_index,
                   welcome_index, inflight, missed, raw_mode, server, nkeys, nfail>>

\* ticker.tick() resolves: refresh_scoped runs
Tick ==
    /\ SelectReady
    /\ missed > 0
    /\ missed' = missed - 1
    /\ UNCHANGED <<server, nkeys, nfail>>
    /\ LET h == refresh_scoped(Self)
       IN  Proceed(Run(h.app, h.todo), [kind |-> "tick", key |-> ""], Self,
                   <<>>, <<>>, inflight)

\* the response to the call of frame i arrives and its handler goes on
Response(i, resp) ==
    LET f == inflight[i]
        rest == SubSeq(inflight, 1, i - 1) \o SubSeq(inflight, i + 1, Len(inflight))
        results == Append(f.results, IF resp.ok THEN "ok" ELSE "err")
        ret == StepOf(Self, Head(f.todo), Some(f.call), resp)
    IN  IF ret.result = "Err"
        THEN Proceed([app |-> ret.app, todo |-> <<>>, call |-> None, result |-> "Err"],
                     f.event, f.pre, f.calls, results, rest)
        ELSE Proceed(Run(ret.app, ret.todo \o Tail(f.todo)), f.event, f.pre, f.calls,
                     results, rest)

\* a remote call succeeds
ResponseOk ==
    /\ running = "running"
    /\ \E i \in DOMAIN inflight : Response(i, Ok(ServerData(server, inflight[i].call)))
    /\ UNCHANGED <<missed, server, nkeys, nfail>>

\* a remote call fails (at most budget times in a run)
ResponseErr(budget) ==
    /\ running = "running"
    /\ nfail < budget
    /\ nfail' = nfail + 1
    /\ \E i \in DOMAIN inflight : Response(i, FailureOf(inflight[i].call))
    /\ UNCHANGED <<missed, server, nkeys>>

\* a period of the interval elapses: while a call is in flight, or while the loop
\* waits in select! with no tick due (a due tick resolves select! at once).  The
\* interval is tokio's default: every deadline that passes is owed a tick (Burst)
TimePasses ==
    /\ running = "running"
    /\ missed < MaxMissed
    /\ inflight # <<>> \/ missed = 0
    /\ missed' = missed + 1
    /\ UNCHANGED <<state, client, modal, screen, auto_login, login_form, menu_index,
                   welcome_index, inflight, running, raw_mode, server, nkeys, nfail>>

\* the remote service loses data between two events: its lists shrink by one
ServerChange ==
    /\ SelectReady
    /\ server > 0
    /\ server' = server - 1
    /\ UNCHANGED <<state, client, modal, screen, auto_login, login_form, menu_index,
                   welcome_index, inflight, missed, running, raw_mode, nkeys, nfail>>

-----------------------------------------------------------------------------
(* Specifications.  Each runs the same loop from App::new; they differ in the *)
(* keys the operator uses and in what the environment does.                  *)

\* Spec: navigation on the dashboard, the cascade and the action dispatcher
Keys == {"Enter", "Down", "Up", "Tab", "n"}

Next ==
    \/ \E key \in Keys : KeyEvent(key)
    \/ Tick
    \/ ResponseOk
    \/ ResponseErr(MaxFail)
    \/ ServerChange

Spec == Init /\ [][Next]_vars

\* SpecModal: the modals of the dashboard, their text input and their submission
ModalKeys == {"Enter", "Esc", "Tab", "Down", "g", "R", "n", "f", "q", " "}

NextModal ==
    \/ \E key \in ModalKeys : KeyEvent(key)
    \/ Tick
    \/ ResponseOk
    \/ ResponseErr(MaxFail)

SpecModal == Init /\ [][NextModal]_vars

\* SpecRefresh: manual and timer-driven refreshes in which several fetches may fail
RefreshKeys == {"Enter", "r", "Down"}

NextRefresh ==
    \/ \E key \in RefreshKeys : KeyEvent(key)
    \/ Tick
    \/ ResponseOk
    \/ ResponseErr(MaxFail + 1)

SpecRefresh == Init /\ [][NextRefresh]_vars

\* SpecTimer: the refresh interval runs on while handlers wait for their calls
TimerKeys == {"Enter", "r"}

NextTimer ==
    \/ \E key \in TimerKeys : KeyEvent(key)
    \/ Tick
    \/ TimePasses
    \/ ResponseOk
    \/ ResponseErr(MaxFail)

SpecTimer == Init /\ [][NextTimer]_vars

\* SpecForm: the create-project, configure and login forms filled in, emptied and
\* submitted, with auto-login or without: a longer session with few keys
FormKeys == {"Enter", "g", "c", "Tab", "x", " ", "Backspace"}

FormBudget == MaxKeys + 2

NextForm ==
    \/ \E key \in FormKeys : KeyEventWithin(key, FormBudget)
    \/ ResponseOk
    \/ ResponseErr(MaxFail)

SpecForm == InitAnyLogin /\ [][NextForm]_vars

\* SpecBranch: the branch list, its cursor and the delete-branch confirmation
BranchKeys == {"Enter", "d", "Esc", "]", "b"}

NextBranch ==
    \/ \E key \in BranchKeys : KeyEvent(key)
    \/ Tick
    \/ ResponseOk
    \/ ResponseErr(MaxFail)
    \/ ServerChange

SpecBranch == Init /\ [][NextBranch]_vars

\* SpecFilter: the step filter cycled round its order, the step cursor moved on the
\* Steps page and the step actions (run QA, approve) requested: a longer session
\* with few keys
FilterKeys == {"Enter", "f", "4", "Up", "y", "a"}

FilterBudget == MaxKeys + 2

NextFilter ==
    \/ \E key \in FilterKeys : KeyEventWithin(key, FilterBudget)
    \/ Tick
    \/ ResponseOk
    \/ ResponseErr(MaxFail)

SpecFilter == Init /\ [][NextFilter]_vars

\* SpecScreens: the operator moves between the screens (the welcome items, the
\* dashboard, the menu, the login form) and opens the configure form on them, with
\* auto-login or without, while the
\* timer ticks, on a terminal whose drawing may fail
ScreenKeys == {"Enter", "Down", "m", "Esc", "c"}

NextScreens ==
    \/ \E key \in ScreenKeys : KeyEvent(key)
    \/ DrawFails
    \/ Tick
    \/ ResponseOk
    \/ ResponseErr(MaxFail)

SpecScreens == InitAnyLogin /\ [][NextScreens]_vars

\* SpecMove: the cursors of AppState moved one item up or down, on lists of every
\* length up to MaxLen, from a cursor that is absent or on the first item, and the
\* pages turned forwards and backwards
Cursors(n) == {None} \cup {Some(i) : i \in 0..(Min(n, 1) - 1)}

InitMove ==
    /\ \E np, ns, nb \in 0..MaxLen :
         \E ip \in Cursors(np), is \in Cursors(ns), ib \in Cursors(nb) :
            state = [InitState EXCEPT
                        !.projects = ServerProjects(np), !.project_index = ip,
                        !.steps = SubSeq(ServerSteps(MaxLen, 11), 1, ns), !.step_index = is,
                        !.branches = SubSeq(BranchNames, 1, nb), !.branch_index = ib]
    /\ client = InitClient
    /\ modal = None
    /\ screen = "Dashboard"
    /\ auto_login = TRUE
    /\ login_form = InitLoginForm(InitClient)
    /\ menu_index = 0
    /\ welcome_index = 0
    /\ inflight = <<>>
    /\ missed = 0
    /\ running = "running"
    /\ raw_mode = TRUE
    /\ server = MaxSize
    /\ nkeys = 0
    /\ nfail = 0

\* one of AppState's select_* fns is applied
Move(delta) ==
    /\ state' \in {select_project(state, delta), select_step(state, delta),
                   select_branch(state, delta)}
    /\ UNCHANGED <<client, modal, screen, auto_login, login_form, menu_index,
                   welcome_index, inflight, missed, running, raw_mode, server, nkeys, nfail>>

\* Page::next or Page::prev is applied to the active page
Turn ==
    /\ state' \in {[state EXCEPT !.page = page_next(@)], [state EXCEPT !.page = page_prev(@)]}
    /\ UNCHANGED <<client, modal, screen, auto_login, login_form, menu_index,
                   welcome_index, inflight, missed, running, raw_mode, server, nkeys, nfail>>

NextMove ==
    \/ \E delta \in {-1, 1} : Move(delta)
    \/ Turn

SpecMove == InitMove /\ [][NextMove]_vars

-----------------------------------------------------------------------------
(* Properties.  A handler's run is read off its frame: the event, the App    *)
(* when the event was taken, the calls issued and their results.             *)

\* a selection index fits its list: no selection iff the list is empty, and a
\* selection is a position of the list
IndexOk(index, list) ==
    IF list = <<>> THEN index = None
    ELSE IsSome(index) /\ Unwrap(index) \in 0..(Len(list) - 1)

ListIndexInvariant(st) ==
    /\ IndexOk(st.project_index, st.projects)
    /\ IndexOk(st.protocol_index, st.protocols)
    /\ IndexOk(st.step_index, st.steps)
    /\ IndexOk(st.event_index, st.events)
    /\ IndexOk(st.recent_event_index, st.recent_events)
    /\ IndexOk(st.branch_index, st.branches)

\* C1: whenever the loop waits for its next event, each of the lists Projects,
\* Protocols, Steps, Events, RecentEvents and Branches has no selection iff it is
\* empty, and otherwise a selection index within 0..len-1
C1_ListIndexInvariant == SelectReady => ListIndexInvariant(state)

\* the handler in flight
Cur == inflight[1]

\* the endpoints of a handler's calls, in the order they were issued
Names(calls) == [i \in 1..Len(calls) |-> calls[i].name]

\* this step ends the handler in flight: the loop is back in select!
Finishing == inflight # <<>> /\ inflight' = <<>>

\* the results of all the calls of the handler this step ends
FinalResults == Append(Cur.results, IF nfail' = nfail THEN "ok" ELSE "err")

\* the handler this step ends ran refresh_all and its protocols fetch failed
ProtocolsFetchFailed ==
    /\ Finishing
    /\ \E i \in 1..Len(Cur.calls) : Cur.calls[i].name = "projects"
    /\ \E i \in 1..Len(Cur.calls) : Cur.calls[i].name = "protocols" /\ FinalResults[i] = "err"

\* the position of the protocols fetch among the calls of the handler in flight
ProtocolsAt == CHOOSE i \in 1..Len(Cur.calls) : Cur.calls[i].name = "protocols"

\* the position of the last call of the ending handler that failed
LastFailedAt ==
    CHOOSE i \in 1..Len(Cur.calls) :
        FinalResults[i] = "err" /\ \A j \in (i + 1)..Len(Cur.calls) : FinalResults[j] = "ok"

\* the fetches refresh_all has to issue after load_protocols when it leaves st
FetchesAfterProtocols(st) ==
    (IF IsSome(selected_protocol_id(st)) THEN <<"steps", "events">> ELSE <<>>)
    \o <<"recent_events", "queue_stats", "queue_jobs">>
    \o (IF IsSome(selected_project_id(st)) THEN <<"branches">> ELSE <<>>)

\* the fetches of a whole refresh_all that leaves st
RefreshFetches(st) ==
    <<"projects">> \o (IF IsSome(selected_project_id(st)) THEN <<"protocols">> ELSE <<>>)
    \o FetchesAfterProtocols(st)

\* this step takes an event out of select!
EventTaken == nkeys' = nkeys + 1 \/ missed' = missed - 1

\* C2: at most one remote operation is in flight; an event (key or tick) is taken
\* only when no call is in flight; and while a call is in flight the App changes
\* only by the response to that call, which continues the same handler
C2_OneOperationInFlight ==
    [][ /\ Len(inflight') <= 1
        /\ EventTaken => inflight = <<>>
        /\ (inflight # <<>> /\ Self' # Self) =>
              \/ inflight' = <<>>
              \/ /\ Cur'.event = Cur.event
                 /\ Cur'.pre = Cur.pre
                 /\ Len(Cur'.results) = Len(Cur.results) + 1
                 /\ SubSeq(Cur'.calls, 1, Len(Cur.calls)) = Cur.calls ]_vars

\* a refresh is in the middle of its sequence while a tick is due and not taken
C2_TickWaits ==
    /\ Len(inflight) = 1
    /\ missed > 0
    /\ Len(Cur.calls) > 1
    /\ Cur.calls[1].name = "projects"

\* C3: ticks that fire during a refresh are coalesced: when the loop is back in
\* select! at most one tick is owed, whatever the number of periods that elapsed
C3_TicksCoalesced == SelectReady => missed <= 1

\* C4: when the protocols fetch of a refresh_all fails, the calls issued after it
\* in the same handler are exactly the remaining fetches, in order: steps and
\* events (a protocol being selected), recent events, queue stats, queue jobs,
\* and branches (a project being selected)
C4_FetchesContinue ==
    [][ ProtocolsFetchFailed =>
            SubSeq(Names(Cur.calls), ProtocolsAt + 1, Len(Cur.calls))
                = FetchesAfterProtocols(state') ]_vars

\* the branches fetch, last of the sequence, is in flight after the protocols
\* fetch of the same refresh_all has failed
C4_BranchesAfterFailure ==
    /\ inflight # <<>>
    /\ Cur.call.name = "branches"
    /\ \E i \in 1..Len(Cur.results) : Cur.calls[i].name = "protocols" /\ Cur.results[i] = "err"
    /\ Cur.calls[1].name = "projects"

\* the message set_error stores for the failure of call c
FailureMessage(c) == to_string(FailureOf(c).err)

ProjectMoveEnds ==
    /\ Finishing
    /\ Cur.event.kind = "key"
    /\ Cur.event.key \in {"Down", "Up"}
    /\ Cur.pre.modal = None
    /\ Cur.pre.screen = "Dashboard"
    /\ Cur.pre.state.page \in {"Dashboard", "Projects"}

\* the service's steps of protocol q that pass the step filter of st
FilteredSteps(st, q) ==
    IF IsSome(st.step_filter)
    THEN FilterSeq(ServerSteps(server, q), {Unwrap(st.step_filter)})
    ELSE ServerSteps(server, q)

\* C6: after a project move and its cascade, Protocols and Branches are the
\* service's lists for the newly selected project, Steps and Events those of the
\* protocol then selected (empty when none is), and the Projects list,
\* RecentEvents, QueueStats and QueueJobs are as they were before the key
C6_ProjectCascade ==
    [][ ProjectMoveEnds =>
            LET p == selected_project_id(state')
                q == selected_protocol_id(state')
            IN  /\ IsSome(p)
                /\ state'.protocols = ServerProtocols(server, Unwrap(p))
                /\ state'.branches = ServerBranches(server, Unwrap(p))
                /\ state'.steps = IF IsSome(q) THEN FilteredSteps(state', Unwrap(q)) ELSE <<>>
                /\ state'.events = IF IsSome(q) THEN ServerEvents(server, Unwrap(q)) ELSE <<>>
                /\ state'.projects = Cur.pre.state.projects
                /\ state'.recent_events = Cur.pre.state.recent_events
                /\ state'.queue_stats = Cur.pre.state.queue_stats
                /\ state'.queue_jobs = Cur.pre.state.queue_jobs ]_vars

\* what no key taken by a modal may touch: the page, the filters, the screens'
\* own cursors and the login form
SameView(a, b) ==
    /\ a.state.page = b.state.page
    /\ a.state.step_filter = b.state.step_filter
    /\ a.state.job_status_filter = b.state.job_status_filter
    /\ a.welcome_index = b.welcome_index
    /\ a.login_form = b.login_form

\* C7: a key taken while a modal is open never quits the loop and never changes
\* the page, a filter, the welcome cursor or the login form, neither at once nor
\* while the modal's submitted action runs; a key other than Enter (which submits)
\* changes nothing but the modal, which stays or closes, and issues no call
C7_ModalPrecedence ==
    [][ /\ \A key \in ModalKeys :
              (IsSome(modal) /\ KeyEvent(key)) =>
                  /\ running' = "running"
                  /\ SameView(Self', Self)
                  /\ key # "Enter" =>
                        /\ [Self' EXCEPT !.modal = None] = [Self EXCEPT !.modal = None]
                        /\ inflight' = <<>>
                        /\ \/ modal' = None
                           \/ IsSome(modal') /\ Unwrap(modal').kind = Unwrap(modal).kind
        /\ (inflight # <<>> /\ Cur.event.kind = "key" /\ IsSome(Cur.pre.modal)) =>
              SameView(Self', Cur.pre) ]_vars

\* a Form modal on the dashboard has taken, as text, a character that the dashboard
\* binds to run next, to the step filter or to quit
C7_ModalTookKey ==
    /\ IsSome(modal)
    /\ Unwrap(modal).kind = "Form"
    /\ \E i \in 1..Len(Unwrap(modal).fields) :
          Unwrap(modal).fields[i].value \in {<<"n">>, <<"f">>, <<"q">>}
    /\ screen = "Dashboard"

\* this step ends a handler whose first call was the run-next action
RunNextEnds == Finishing /\ Cur.calls[1].name = "step_run_next"

\* C8: when run next was triggered and its call succeeded, the status line is
\* "Run next enqueued" once the handling of the event, its refresh included, is over
C8_StatusRunNextEnqueued ==
    [][ (RunNextEnds /\ FinalResults[1] = "ok") =>
            state'.status = Str("Run next enqueued") ]_vars

\* C9: the run-next key with a protocol selected issues one step_run_next call
\* for the selected protocol's id; the handler it starts issues no other action
\* call; when the call succeeds the handler goes on to issue the fetches of a whole
\* refresh_all, in order, before the loop is back in select!; when it fails the
\* handler issues no fetch and leaves the cache as it was
C9_RunNextThenRefresh ==
    [][ /\ ( /\ KeyEvent("n")
             /\ modal = None
             /\ screen = "Dashboard"
             /\ IsSome(selected_protocol_id(state)) ) =>
               /\ inflight' # <<>>
               /\ Cur'.calls = <<Call("step_run_next",
                                      <<Unwrap(selected_protocol_id(state))>>, client)>>
        /\ RunNextEnds =>
               /\ Cur.calls[1] = Call("step_run_next",
                                      <<Unwrap(selected_protocol_id(Cur.pre.state))>>,
                                      Cur.pre.client)
               /\ Tail(Names(Cur.calls)) =
                      IF FinalResults[1] = "ok" THEN RefreshFetches(state') ELSE <<>>
               /\ FinalResults[1] = "ok" => ~state'.refreshing
               /\ FinalResults[1] = "err" =>
                      state' = [Cur.pre.state EXCEPT
                                   !.last_error = Some(FailureMessage(Cur.calls[1]))] ]_vars

\* the refresh that follows a successful run next is issuing its last fetch
C9_RefreshAfterRunNext ==
    /\ inflight # <<>>
    /\ Cur.calls[1].name = "step_run_next"
    /\ Cur.call.name = "branches"
    /\ Cur.results[1] = "ok"

\* the create-project form is open with a name that is empty once trimmed
BlankNameForm ==
    /\ IsSome(modal)
    /\ Unwrap(modal).kind = "Form"
    /\ Unwrap(modal).action = "CreateProject"
    /\ Trim(Unwrap(modal).fields[1].value) = <<>>

\* C10: Enter on the create-project form whose name is empty or only whitespace
\* stores the validation error in the error slot, issues no remote call, closes
\* the form and leaves the Projects list and its selection as they were
C10_BlankNameRejected ==
    [][ (BlankNameForm /\ KeyEventWithin("Enter", FormBudget)) =>
            /\ state'.last_error = Some(Str("Name and Git URL required"))
            /\ inflight' = <<>>
            /\ modal' = None
            /\ state'.projects = state.projects
            /\ state'.project_index = state.project_index ]_vars

\* the form was rejected: the validation error is in the slot on the dashboard,
\* whose Projects list is loaded
C10_ValidationError ==
    /\ SelectReady
    /\ state.last_error = Some(Str("Name and Git URL required"))
    /\ state.projects # <<>>
    /\ modal = None

\* the branch the cursor of st is on, if any
SelectedBranch(st) ==
    IF IsSome(st.branch_index) THEN Get(st.branches, Unwrap(st.branch_index)) ELSE None

\* the delete-branch confirmation is open in app
DeleteBranchOpen(app) ==
    /\ IsSome(app.modal)
    /\ Unwrap(app.modal).kind = "Confirm"
    /\ Unwrap(app.modal).action = "DeleteBranch"

\* C11: the delete-branch key pressed on the dashboard with no branch selected
\* (empty Branches list or no branch index) changes nothing and issues no call;
\* and whenever the delete-branch confirmation opens, a branch was selected when
\* the key was pressed and the confirmation names that branch
C11_DeleteBranchNeedsSelection ==
    [][ /\ ( /\ KeyEvent("d")
             /\ modal = None
             /\ screen = "Dashboard"
             /\ ~IsSome(SelectedBranch(state)) ) =>
               /\ Self' = Self
               /\ inflight' = <<>>
        /\ (DeleteBranchOpen(Self') /\ ~DeleteBranchOpen(Self)) =>
               /\ IsSome(SelectedBranch(state))
               /\ Unwrap(modal').message =
                      <<"Delete remote branch '", Unwrap(SelectedBranch(state)), "'?">> ]_vars

\* the dashboard has taken keys with its Projects loaded and its Branches list
\* empty: the delete-branch key finds no branch to confirm
C11_NoBranchToDelete ==
    /\ SelectReady
    /\ screen = "Dashboard"
    /\ modal = None
    /\ state.projects # <<>>
    /\ state.branches = <<>>
    /\ state.branch_index = None
    /\ nkeys >= 2

\* this step delivers the response to the call of the named endpoint
ResponseTo(name) == inflight # <<>> /\ Cur.call.name = name /\ inflight' # inflight

\* ... and the response is a success
SuccessOf(name) == ResponseTo(name) /\ nfail' = nfail

\* the prior index when it is a position of the new list, else the fallback
KeptOr(prior, list, fallback) ==
    IF IsSome(prior) /\ Unwrap(prior) < Len(list) THEN prior ELSE Some(fallback)

\* C12: a successful projects (protocols) fetch stores the list the service
\* returned, and when that list is not empty the project (protocol) index is the
\* prior index if it is a position of the new list and 0 if it is absent or out
\* of range
C12_FirstItemSelected ==
    [][ /\ (SuccessOf("projects") /\ state'.projects # <<>>) =>
               /\ state'.projects = ServerData(server, Cur.call)
               /\ state'.project_index = KeptOr(state.project_index, state'.projects, 0)
        /\ (SuccessOf("protocols") /\ state'.protocols # <<>>) =>
               /\ state'.protocols = ServerData(server, Cur.call)
               /\ state'.protocol_index = KeptOr(state.protocol_index, state'.protocols, 0)
      ]_vars

\* a refresh has fetched a Protocols list shorter than the one the second protocol
\* was selected in: the selection is back on the first protocol
C12_ResetToFirst ==
    /\ inflight # <<>>
    /\ Len(Cur.results) >= 2
    /\ Cur.calls[2].name = "protocols"
    /\ Cur.results[2] = "ok"
    /\ Cur.pre.state.protocol_index = Some(1)
    /\ Len(state.protocols) = 1
    /\ state.protocol_index = Some(0)

\* C13: a successful steps fetch stores the steps the service returned that pass
\* step_filter; when none passes the step index is None, and otherwise it is the
\* prior index if it is a position of the new list and the last position, len-1,
\* if it is absent or out of range
C13_LastStepSelected ==
    [][ SuccessOf("steps") =>
            /\ state'.steps = FilteredSteps(state, Cur.call.arg[1])
            /\ state'.step_index =
                   IF state'.steps = <<>> THEN None
                   ELSE KeptOr(state.step_index, state'.steps, Len(state'.steps) - 1) ]_vars

\* a steps fetch succeeded and no step passed the filter: no step is selected
C13_NoStepPasses ==
    /\ SelectReady
    /\ state.step_filter = Some("running")
    /\ state.protocols # <<>>
    /\ state.last_error = None
    /\ state.steps = <<>>
    /\ state.step_index = None

\* the parts of the cache the step-filter cycle may touch, blanked
OutsideSteps(st) ==
    [st EXCEPT !.steps = <<>>, !.step_index = None, !.step_filter = None,
               !.status = <<>>, !.last_error = None]

\* the handler in flight is that of the step-filter key taken by handle_key
StepFilterKey(event, pre) ==
    event = [kind |-> "key", key |-> "f"] /\ pre.modal = None /\ pre.screen = "Dashboard"

\* C14: the status line reports the step filter back on "all" only after the
\* first key and at least 5 step-filter keys, so fewer than 5 cycles do not lead
\* back to unfiltered; the step-filter key issues at most one call, a steps fetch
\* for the selected protocol; and while its handler runs nothing of the cache
\* changes but Steps, the step index, the filter, the status and the error slot
C14_StepFilterCycle ==
    [][ /\ state'.status = <<"Step filter: ", "all">> =>
               state'.step_filter = None /\ nkeys' >= 6
        /\ ( /\ KeyEventWithin("f", FilterBudget)
             /\ StepFilterKey([kind |-> "key", key |-> "f"], Self) ) =>
               /\ state.step_filter = None => state'.step_filter # None
               /\ OutsideSteps(state') = OutsideSteps(state)
               /\ IF IsSome(selected_protocol_id(state))
                  THEN /\ inflight' # <<>>
                       /\ Cur'.calls = <<Call("steps", <<Unwrap(selected_protocol_id(state))>>,
                                               client)>>
                  ELSE inflight' = <<>>
        /\ (inflight # <<>> /\ StepFilterKey(Cur.event, Cur.pre)) =>
               /\ OutsideSteps(state') = OutsideSteps(Cur.pre.state)
               /\ inflight' # inflight => inflight' = <<>> ]_vars

\* five step-filter keys after the first key: the filter is back on unfiltered
C14_BackToUnfiltered ==
    /\ SelectReady
    /\ nkeys = 6
    /\ state.status = <<"Step filter: ", "all">>
    /\ state.step_filter = None
    /\ state.steps # <<>>

\* the endpoints of the modal actions that call the service
ModalActionCalls ==
    {"create_project", "create_protocol", "spec_audit", "import_codemachine", "delete_branch"}

\* the handler this step ends submitted a modal action and its call succeeded
ModalActionDone ==
    /\ Finishing
    /\ Cur.event.kind = "key"
    /\ Cur.pre.modal # None
    /\ Cur.calls[1].name \in ModalActionCalls
    /\ FinalResults[1] = "ok"

\* C15: when the call of a modal action other than configure-gateway succeeds, the
\* handler sets a status message and issues the fetches of a whole refresh_all, in
\* order, before the loop is back in select!; configure-gateway issues no call
C15_ModalActionRefreshes ==
    [][ /\ ModalActionDone =>
               /\ state'.status # Cur.pre.state.status
               /\ Tail(Names(Cur.calls)) = RefreshFetches(state')
        /\ ( /\ inflight # <<>>
             /\ Cur.pre.modal # None
             /\ Unwrap(Cur.pre.modal).kind = "Form"
             /\ Unwrap(Cur.pre.modal).action = "TokenConfig" ) => Cur.calls = <<>> ]_vars

\* the endpoints of the dispatcher's actions
QuickActionCalls ==
    {"step_run_next", "step_retry_latest", "step_run_qa", "step_approve",
     "protocol_open_pr", "protocol_action"}

\* the handler this step ends issued the call of an action, which failed
ActionFailed ==
    /\ Finishing
    /\ Cur.calls[1].name \in QuickActionCalls \cup ModalActionCalls
    /\ FinalResults[1] = "err"

\* C16: when the call of an action (of the dispatcher or of a modal) fails, the
\* handler issues no other call and leaves the AppState as it was when the key
\* was taken, every list and index included, but for the error slot, which holds
\* the message of the failure
C16_FailedActionKeepsCache ==
    [][ ActionFailed =>
            /\ Len(Cur.calls) = 1
            /\ state' = [Cur.pre.state EXCEPT
                            !.last_error = Some(FailureMessage(Cur.calls[1]))] ]_vars

\* the create-protocol call failed and left its message, the protocols still listed
C16_CreateProtocolFailed ==
    /\ SelectReady
    /\ state.protocols # <<>>
    /\ IsSome(state.protocol_index)
    /\ \E c \in {Call("create_protocol", <<1, <<"n">>, Main, None>>, client)} :
           state.last_error = Some(FailureMessage(c))

\* this step belongs to the handling of a timer tick
TickStep == missed' = missed - 1 \/ (inflight # <<>> /\ Cur.event.kind = "tick")

\* the dashboard keys that only move between pages and screens
NavigationKeys == {"1", "2", "3", "4", "5", "6", "7", "Tab", "BackTab", "m", "w"}

\* C17: a recorded error is not cleared by time or navigation: no step of the
\* handling of a timer tick leaves the error slot empty when it held a message,
\* and a page or screen key on the dashboard leaves the error slot as it was
C17_ErrorOutlivesTicks ==
    [][ /\ (TickStep /\ state.last_error # None) => state'.last_error # None
        /\ \A key \in NavigationKeys :
               (KeyEvent(key) /\ modal = None /\ screen = "Dashboard") =>
                   state'.last_error = state.last_error ]_vars

\* the screens other than the dashboard
OtherScreens == {"Welcome", "Login", "Menu", "SettingsInfo", "Help", "Version"}

\* C18: away from the dashboard refresh_all returns at once with the App as it
\* is and nothing to await, and a timer tick taken there issues no call and
\* leaves the whole App (lists, indices, status line, error slot) unchanged
C18_RefreshOnlyOnDashboard ==
    [][ /\ screen \in OtherScreens => refresh_all(Self) = Ret(Self, <<>>)
        /\ (screen \in OtherScreens /\ missed' = missed - 1) =>
               (inflight' = <<>> /\ Self' = Self) ]_vars

\* the timer's tick was taken away from the dashboard: on the login screen the
\* lists are loaded and the message of the failed fetch is still in the error slot
C18_TickOnLogin ==
    /\ SelectReady
    /\ screen = "Login"
    /\ missed = 0
    /\ state.projects # <<>>
    /\ state.last_error # None

\* C19: whenever run has returned, by the quit signal or by an error, the
\* terminal has been released: raw mode is off and the alternate screen left
C19_TerminalReleased == running # "running" => ~raw_mode

\* C20: the event handler returns the quit signal only on the Welcome screen,
\* the main menu or the dashboard: no key taken on the Login, SettingsInfo, Help
\* or Version screen ends the loop
C20_QuitOnlyFromQuitScreens ==
    [][ (running = "running" /\ running' = "exited") =>
            screen \in {"Welcome", "Menu", "Dashboard"} ]_vars

\* the modal open when the event of the handler in flight was taken
SubmittedModal(f) == Unwrap(f.pre.modal)

\* C21: while a call of a handler started by a key taken with a modal open is in
\* flight no modal is active; and the call that Enter on a Form issues is the one
\* of the form's action on the field values the form held when Enter was taken
C21_ModalDismissedBeforeCall ==
    [][ /\ (inflight' # <<>> /\ Cur'.event.kind = "key" /\ IsSome(Cur'.pre.modal)) =>
               modal' = None
        /\ ( /\ inflight' # <<>>
             /\ inflight = <<>>
             /\ Cur'.event = [kind |-> "key", key |-> "Enter"]
             /\ IsSome(Cur'.pre.modal)
             /\ SubmittedModal(Cur').kind = "Form" ) =>
               /\ Cur'.pre.modal = modal
               /\ Cur'.calls =
                      <<Unwrap(handle_form_submitCall([Self EXCEPT !.modal = None],
                                                      SubmittedModal(Cur').action,
                                                      Unwrap(modal).fields))>> ]_vars

\* the create-protocol call of a submitted form is in flight, the form dismissed
C21_FormCallInFlight ==
    /\ inflight # <<>>
    /\ Cur.call.name = "create_protocol"
    /\ Cur.call.arg[2] = <<"n">>
    /\ IsSome(Cur.pre.modal)
    /\ modal = None

\* the cursors of AppState, each with the length of its list
CursorsOf(st) ==
    { <<st.project_index, Len(st.projects)>>, <<st.protocol_index, Len(st.protocols)>>,
      <<st.step_index, Len(st.steps)>>, <<st.event_index, Len(st.events)>>,
      <<st.branch_index, Len(st.branches)>> }

\* r is the cursor cur of a list of len items moved by delta without wrapping: none
\* on an empty list, else the position delta away from cur (from 0 when cur is
\* absent) if the list has it, and the end of the list on that side if not
MovedTo(r, cur, len, delta) ==
    LET from == IF cur = None THEN 0 ELSE Unwrap(cur)
    IN  IF len = 0 THEN r = None
        ELSE /\ IsSome(r)
             /\ Unwrap(r) \in 0..(len - 1)
             /\ (from + delta) \in 0..(len - 1) => Unwrap(r) = from + delta
             /\ from + delta < 0 => Unwrap(r) = 0
             /\ from + delta > len - 1 => Unwrap(r) = len - 1

\* C22: for every list length, every cursor that is absent or on the list and
\* every delta of -1 or +1, move_index gives no cursor on an empty list and else
\* the cursor (0 when absent) plus delta clamped to the list; it never wraps
C22_MoveClamps ==
    \A delta \in {-1, 1} : \A c \in CursorsOf(state) :
        /\ ~IsSome(c[1]) \/ Unwrap(c[1]) < c[2]
        /\ MovedTo(move_index(c[1], c[2], delta), c[1], c[2], delta)

\* the step cursor has been moved to the last of MaxLen steps, where a move down
\* stays, the branch cursor is on the first of MaxLen branches, where a move up
\* stays, and there is no project to move to
C22_CursorsAtTheEnds ==
    /\ Len(state.steps) = MaxLen
    /\ state.step_index = Some(MaxLen - 1)
    /\ select_step(state, 1) = state
    /\ Len(state.branches) = MaxLen
    /\ state.branch_index = Some(0)
    /\ select_branch(state, -1) = state
    /\ state.projects = <<>>
    /\ select_project(state, 1) = state

\* every item of the list belongs to the selected parent, and without a selected
\* parent the list is empty
ChildrenOf(list, parent, field) ==
    IF IsSome(parent) THEN \A i \in 1..Len(list) : list[i][field] = Unwrap(parent)
    ELSE list = <<>>

\* C23: whenever the loop waits for the next event, the cached protocols are
\* protocols of the selected project, the cached steps and events are steps and
\* events of the selected protocol, and with no project (protocol) selected the
\* Protocols and Branches (Steps and Events) lists are empty
C23_ChildrenOfSelection ==
    SelectReady =>
        /\ ChildrenOf(state.protocols, selected_project_id(state), "project_id")
        /\ ~IsSome(selected_project_id(state)) => state.branches = <<>>
        /\ ChildrenOf(state.steps, selected_protocol_id(state), "protocol_run_id")
        /\ ChildrenOf(state.events, selected_protocol_id(state), "protocol_run_id")

\* this step ends a handler that began with the projects fetch of a refresh_all
RefreshEnds == Finishing /\ Cur.calls[1].name = "projects"

\* C24: the fetches of one refresh_all are, in this order, projects, protocols (a
\* project being selected), steps and events (a protocol being selected), recent
\* events, queue stats, queue jobs, branches (a project being selected); without
\* a selected project Protocols and Branches are left empty with no index, and
\* without a selected protocol Steps and Events are
C24_RefreshOrder ==
    [][ RefreshEnds =>
            /\ Names(Cur.calls) = RefreshFetches(state')
            /\ ~IsSome(selected_project_id(state')) =>
                   /\ state'.protocols = <<>> /\ state'.protocol_index = None
                   /\ state'.branches = <<>> /\ state'.branch_index = None
            /\ ~IsSome(selected_protocol_id(state')) =>
                   /\ state'.steps = <<>> /\ state'.step_index = None
                   /\ state'.events = <<>> /\ state'.event_index = None ]_vars

\* a refresh that has no project (its projects fetch failed) is at its queue jobs
\* fetch, the fourth, having skipped protocols, steps and events
C24_SkippedToQueue ==
    /\ inflight # <<>>
    /\ Len(Cur.calls) = 4
    /\ Cur.call.name = "queue_jobs"
    /\ Cur.calls[1].name = "projects"
    /\ Cur.results[1] = "err"
    /\ state.projects = <<>>

\* the field of form m at position i is empty once trimmed
Blank(m, i) == Trim(m.fields[i].value) = <<>>

\* m is a form one of whose required fields is empty
RequiredFieldEmpty(m) ==
    /\ m.kind = "Form"
    /\ CASE m.action = "CreateProject" -> Blank(m, 1) \/ Blank(m, 2)
         [] m.action = "CreateProtocol" -> Blank(m, 1)
         [] m.action = "ImportCodeMachine" -> Blank(m, 1) \/ Blank(m, 2)
         [] m.action = "TokenConfig" -> Blank(m, 1)
         [] OTHER -> FALSE

\* the messages with which handle_form_submit rejects a form
ValidationMessages ==
    { Str("Name and Git URL required"), Str("Protocol name required"),
      Str("Protocol name and workspace path required"), Str("Select a project first") }

\* C25: Enter on a create-project, create-protocol, import or configure form with
\* a required field empty issues no call, leaves the gateway binding as it was and
\* puts a validation message in the error slot
C25_RequiredFieldsEnforced ==
    [][ ( /\ IsSome(modal)
          /\ RequiredFieldEmpty(Unwrap(modal))
          /\ KeyEventWithin("Enter", FormBudget) ) =>
            /\ inflight' = <<>>
            /\ client' = client
            /\ \E m \in ValidationMessages : state'.last_error = Some(m) ]_vars

\* the error slot of st holds a message that is not the failure of a remote call
LocalError(st) == IsSome(st.last_error) /\ Head(Unwrap(st.last_error)) # "http error "

\* C26: the run-next key on the dashboard with no protocol selected issues no
\* remote call and leaves a precondition error in the error slot
C26_NoProtocolIsAnError ==
    [][ ( /\ KeyEvent("n")
          /\ modal = None
          /\ screen = "Dashboard"
          /\ ~IsSome(selected_protocol_id(state)) ) =>
            /\ inflight' = <<>>
            /\ LocalError(state') ]_vars

\* C27: Enter taken with no modal open on the SettingsInfo, Help or Version
\* screen goes to the dashboard with the Settings page active and starts a
\* refresh_all, whose projects fetch is the first call of the handler
C27_InfoEnterToSettings ==
    [][ ( /\ KeyEvent("Enter")
          /\ modal = None
          /\ screen \in {"SettingsInfo", "Help", "Version"} ) =>
            /\ screen' = "Dashboard"
            /\ state'.page = "Settings"
            /\ inflight' # <<>>
            /\ Names(Cur'.calls) = <<"projects">> ]_vars

\* C28: a step that takes the screen to the dashboard starts a refresh_all in the
\* same handler, which goes on to issue the whole sequence of fetches before the
\* loop is back in select!; Start on the welcome screen without auto-login goes to
\* the login screen and issues no call
C28_DashboardEntryRefreshes ==
    [][ /\ (screen # "Dashboard" /\ screen' = "Dashboard") =>
               /\ inflight' # <<>>
               /\ Names(Cur'.calls) = <<"projects">>
               /\ state'.refreshing
        /\ (RefreshEnds /\ Cur.pre.screen # "Dashboard") =>
               /\ Names(Cur.calls) = RefreshFetches(state')
               /\ ~state'.refreshing
        /\ ( /\ KeyEvent("Enter")
             /\ modal = None
             /\ screen = "Welcome"
             /\ welcome_index = 0
             /\ ~auto_login ) =>
               /\ screen' = "Login"
               /\ inflight' = <<>> ]_vars

\* without auto-login the operator has gone through the login screen and the
\* menu, and the refresh of the dashboard entry is at its last fetch
C28_EnteredFromMenu ==
    /\ inflight # <<>>
    /\ ~auto_login
    /\ Cur.pre.screen = "Menu"
    /\ screen = "Dashboard"
    /\ Cur.call.name = "branches"

\* C29: Up or Down on the Steps page of the dashboard issues no remote call and
\* changes nothing of the cache but the step index
C29_StepMoveHasNoCascade ==
    [][ \A key \in {"Up", "Down"} :
            ( /\ KeyEventWithin(key, FilterBudget)
              /\ modal = None
              /\ screen = "Dashboard"
              /\ state.page = "Steps" ) =>
                /\ inflight' = <<>>
                /\ [state' EXCEPT !.step_index = None] = [state EXCEPT !.step_index = None]
      ]_vars

\* this step ends the handler of an Up or Down key taken on the Protocols page
ProtocolMoveEnds ==
    /\ Finishing
    /\ Cur.event.kind = "key"
    /\ Cur.event.key \in {"Down", "Up"}
    /\ Cur.pre.modal = None
    /\ Cur.pre.screen = "Dashboard"
    /\ Cur.pre.state.page = "Protocols"

\* the fetches of the children of the protocol selected in st
ProtocolChildren(st) ==
    IF IsSome(selected_protocol_id(st)) THEN <<"steps", "events">> ELSE <<>>

\* C30: the handler of a protocol move issues the steps and events fetches of the
\* selected protocol and no other call, that of a project move the protocols,
\* steps, events and branches fetches and no other call (a fetch whose parent
\* selection is absent is not issued): never projects, recent events or the queue
C30_ScopedRefresh ==
    [][ /\ ProtocolMoveEnds => Names(Cur.calls) = ProtocolChildren(state')
        /\ ProjectMoveEnds =>
               /\ IsSome(selected_project_id(state'))
               /\ Names(Cur.calls) = <<"protocols">> \o ProtocolChildren(state') \o <<"branches">>
        /\ \A key \in {"Up", "Down"} :
               ( /\ KeyEvent(key)
                 /\ modal = None
                 /\ screen = "Dashboard"
                 /\ state.page \in {"Dashboard", "Projects", "Protocols"}
                 /\ inflight' = <<>> ) =>
                   ~IsSome(selected_protocol_id(state')) ]_vars

\* the protocol cursor has moved and the second and last fetch of its handler, the
\* events of the newly selected protocol, is in flight
C30_ProtocolMoved ==
    /\ inflight # <<>>
    /\ Cur.event.key = "Down"
    /\ Cur.pre.state.page = "Protocols"
    /\ state.protocol_index # Cur.pre.state.protocol_index
    /\ Names(Cur.calls) = <<"steps", "events">>

RECURSIVE NextTimes(_, _)
\* Page::next applied k times to page p
NextTimes(p, k) == IF k = 0 THEN p ELSE NextTimes(page_next(p), k - 1)

\* C31: the active page is one of the 7 pages, prev undoes next and next undoes
\* prev on it, next applied 7 times leads back to it and no fewer applications
\* do, and next leads from Settings to Dashboard
C31_PagesCycle ==
    /\ \E i \in 1..Len(Pages) : Pages[i] = state.page
    /\ Len(Pages) = 7
    /\ page_prev(page_next(state.page)) = state.page
    /\ page_next(page_prev(state.page)) = state.page
    /\ NextTimes(state.page, Len(Pages)) = state.page
    /\ \A k \in 1..(Len(Pages) - 1) : NextTimes(state.page, k) # state.page
    /\ \A i \in 1..(Len(Pages) - 1) : page_next(Pages[i]) = Pages[i + 1]
    /\ page_next("Settings") = "Dashboard"

\* the pages have been turned to the last one, from which next leads to the first
C31_OnTheLastPage ==
    /\ state.page = "Settings"
    /\ state.page = Pages[Len(Pages)]
    /\ page_next(state.page) = "Dashboard"

\* C32: the gateway binding changes only in the step that handles Enter on the
\* login form or Enter on the configure-gateway form, a step taken with no call
\* outstanding and that issues none; every call a handler has issued carries the
\* binding the App holds while the handler is in flight
C32_BindingReplacedOnSubmit ==
    [][ /\ (client' # client) =>
               /\ inflight = <<>>
               /\ inflight' = <<>>
               /\ KeyEventWithin("Enter", FormBudget)
               /\ \/ modal = None /\ screen = "Login" /\ screen' = "Menu"
                  \/ /\ IsSome(modal)
                     /\ Unwrap(modal).kind = "Form"
                     /\ Unwrap(modal).action = "TokenConfig"
                     /\ modal' = None
        /\ \A i \in DOMAIN inflight' : \A j \in DOMAIN inflight'[i].calls :
               inflight'[i].calls[j].client = client' ]_vars

\* a binding entered on the login form is in use: the refresh of the dashboard
\* entry has issued several calls with it
C32_ReboundCallInFlight ==
    /\ inflight # <<>>
    /\ client # InitClient
    /\ Len(Cur.calls) > 1
    /\ Cur.call.client = client

\* the configure-gateway form has replaced the binding
C32_ReboundByConfigure ==
    /\ client # InitClient
    /\ state.status[1] = "API base set to "

\* what the operator is looking at and typing into: the screen, the page, the
\* open modal with its field values and its focus or highlighted index, the two
\* filters and the login form
TickView(app) ==
    <<app.screen, app.state.page, app.modal, app.state.step_filter,
      app.state.job_status_filter, app.login_form>>

\* C33: no step of the handling of a timer tick, from the step that takes the
\* tick to the one that completes its refresh, changes the screen, the page, the
\* open modal, the step filter, the job filter or the login form; when the
\* handling ends they are as they were when the tick was taken
C33_TickKeepsView ==
    [][ /\ TickStep => TickView(Self') = TickView(Self)
        /\ (Finishing /\ Cur.event.kind = "tick") => TickView(Self') = TickView(Cur.pre) ]_vars

\* a tick taken on the dashboard with a form open, a field of it typed into and
\* the step filter set: its refresh is past its first fetch
C33_TickUnderForm ==
    /\ inflight # <<>>
    /\ Cur.event.kind = "tick"
    /\ Len(Cur.calls) > 1
    /\ IsSome(modal)
    /\ Unwrap(modal).kind = "Form"
    /\ Unwrap(modal).fields[1].value # <<>>
    /\ IsSome(state.step_filter)

\* C34: when Enter accepts the delete-branch confirmation and a delete_branch
\* call is issued, the branch it names is the branch the confirmation's message
\* names, whatever ticks were handled since the confirmation was opened
C34_DeletesConfirmedBranch ==
    [][ ( /\ KeyEvent("Enter")
          /\ DeleteBranchOpen(Self)
          /\ inflight' # <<>>
          /\ Cur'.call.name = "delete_branch" ) =>
            Unwrap(modal).message = <<"Delete remote branch '", Cur'.call.arg[2], "'?">> ]_vars

QuitKeys == {"q", "Ctrl-c", "Esc", "Enter", "3", "5"}

\* C36: with a modal open the event handler returns the non-quit result for every
\* key that quits on some screen, 'q' and the Ctrl-C interrupt included; a step in which the loop
\* ends is taken with no modal open, and the loop does not end either while the
\* action a modal submitted is running
C36_NoQuitUnderModal ==
    [][ /\ IsSome(modal) =>
               \A key \in QuitKeys :
                   /\ ~handle_event(Self, key).quit
                   /\ handle_event(Self, key).result = "Ok"
        /\ (running = "running" /\ running' # "running") => modal = None
        /\ (inflight # <<>> /\ Cur.event.kind = "key" /\ IsSome(Cur.pre.modal)) =>
               running' = "running" ]_vars

\* the quit key was taken by the create-protocol form as the character q, and the
\* loop goes on: the interrupt would be taken as the character c
C36_QuitKeyTyped ==
    /\ running = "running"
    /\ IsSome(modal)
    /\ Unwrap(modal).kind = "Form"
    /\ Unwrap(modal).action = "CreateProtocol"
    /\ Unwrap(modal).fields[1].value = <<"q">>
    /\ handle_event(Self, "Ctrl-c").app.modal =
           Some([Unwrap(modal) EXCEPT !.fields[1].value = <<"q", "c">>])

\* C37: whenever the loop waits for its next event with the step filter set,
\* every step of the cached Steps list has the status the filter names
C37_StepsMatchFilter ==
    (SelectReady /\ IsSome(state.step_filter)) =>
        \A i \in 1..Len(state.steps) : state.steps[i].status = Unwrap(state.step_filter)

\* C38: when a refresh_all on the dashboard has completed, the busy flag is off,
\* the error slot is empty exactly if every fetch of the refresh succeeded, and
\* otherwise it holds the message of the last of its fetches that failed
C38_ErrorSlotAfterRefresh ==
    [][ RefreshEnds =>
            /\ ~state'.refreshing
            /\ (state'.last_error = None) <=>
                   (\A i \in 1..Len(Cur.calls) : FinalResults[i] = "ok")
            /\ (\E i \in 1..Len(Cur.calls) : FinalResults[i] = "err") =>
                   state'.last_error = Some(FailureMessage(Cur.calls[LastFailedAt])) ]_vars

\* a refresh_all has completed after two of its fetches failed: the loop waits
\* with the busy flag off and a message in the error slot
C38_RefreshedWithFailures ==
    /\ SelectReady
    /\ screen = "Dashboard"
    /\ nfail = 2
    /\ ~state.refreshing
    /\ state.status[1] = "Refreshed in "
    /\ state.last_error # None

\* C39: the call issued for the run-qa key or the approve key on the dashboard
\* names the step at step_index
C39_ActsOnSelectedStep ==
    [][ \A key \in {"y", "a"} :
            ( /\ KeyEventWithin(key, FilterBudget)
              /\ modal = None
              /\ screen = "Dashboard"
              /\ inflight' # <<>> ) =>
                /\ Cur'.call.name = (IF key = "y" THEN "step_run_qa" ELSE "step_approve")
                /\ Some(Cur'.call.arg[1]) = selected_step_id(state) ]_vars

\* C40: the call issued for the run-next key on the dashboard names a cached
\* protocol that belongs to the selected project
C40_ActionInSelectedProject ==
    [][ ( /\ KeyEvent("n")
          /\ modal = None
          /\ screen = "Dashboard"
          /\ inflight' # <<>> ) =>
            /\ IsSome(selected_project_id(state))
            /\ \E i \in 1..Len(state.protocols) :
                  /\ state.protocols[i].id = Cur'.call.arg[1]
                  /\ state.protocols[i].project_id = Unwrap(selected_project_id(state)) ]_vars

=============================================================================
